---- MODULE Spec2Model ----
(***************************************************************************)
(* XMODEM / YMODEM transfer engines (src/src/xmodem.rs, src/src/ymodem.rs, *)
(* src/src/xymodem_util.rs) as state machines.                             *)
(*                                                                         *)
(* An endpoint owns one engine value (an Xmodem or a Ymodem struct) and    *)
(* runs top-level calls on it.  The device `dev` of an endpoint is a pair  *)
(* of byte queues: rx[e] holds what the next reads of dev return, tx[e]    *)
(* logs what the call wrote.  Two endpoints can be linked (what one writes *)
(* is what the other reads) or a single endpoint can face an arbitrary     *)
(* peer that decides the outcome of every read.                            *)
(***************************************************************************)
EXTENDS Integers, Sequences, FiniteSets, TLC

\* ---------------------------------------------------------------- bytes

SOH == 1
STX == 2
EOT == 4
ACK == 6
NAK == 21
CAN == 24
CRC == 67

\* Outcomes of a read of dev that are not a byte: io::ErrorKind::TimedOut
\* and any other io::Error.
TimedOut == -1
IoFail == -2

IsByte(x) == x >= 0

\* Payload sizes selected by the header byte.
SohSize == 128
StxSize == 1024

\* ------------------------------------------------------------- checksums

Bit(a, p) == (a \div p) % 2

\* a ^ b for two bytes
Xor8(a, b) ==
    ((Bit(a, 1) + Bit(b, 1)) % 2) + 2 * ((Bit(a, 2) + Bit(b, 2)) % 2)
    + 4 * ((Bit(a, 4) + Bit(b, 4)) % 2) + 8 * ((Bit(a, 8) + Bit(b, 8)) % 2)
    + 16 * ((Bit(a, 16) + Bit(b, 16)) % 2) + 32 * ((Bit(a, 32) + Bit(b, 32)) % 2)
    + 64 * ((Bit(a, 64) + Bit(b, 64)) % 2) + 128 * ((Bit(a, 128) + Bit(b, 128)) % 2)

\* a ^ b for bytes, tabulated (index + 1)
XorTable ==
    SubSeq([a \in 1..256 |-> SubSeq([b \in 1..256 |-> Xor8(a - 1, b - 1)], 1, 256)], 1, 256)

\* one shift of the 16-bit CRC register; when the bit shifted out is set the
\* register is xored with the polynomial 0x1021 (bits 12, 5 and 0)
CrcShift(c) ==
    LET s == (c * 2) % 65536
    IN IF c < 32768 THEN s
       ELSE s + 1 + (IF Bit(s, 32) = 1 THEN -32 ELSE 32)
                  + (IF Bit(s, 4096) = 1 THEN -4096 ELSE 4096)

CrcShift8(c) ==
    CrcShift(CrcShift(CrcShift(CrcShift(CrcShift(CrcShift(CrcShift(CrcShift(c))))))))

\* the register reached from (i << 8) by eight shifts, tabulated (index + 1)
CrcTable == SubSeq([i \in 1..256 |-> CrcShift8((i - 1) * 256)], 1, 256)

\* the CRC register after one more message byte:
\* (c << 8) ^ table[(c >> 8) ^ b]
CrcByte(c, b) ==
    LET t == CrcTable[XorTable[(c \div 256) + 1][b + 1] + 1]
    IN XorTable[(c % 256) + 1][(t \div 256) + 1] * 256 + (t % 256)

RECURSIVE CrcFold(_, _, _, _)
\* the CRC register after data[lo..hi], starting from c (the range is
\* split in halves to keep the evaluation shallow)
CrcFold(data, lo, hi, c) ==
    IF c < 0 \/ lo > hi THEN c
    ELSE IF lo = hi THEN CrcByte(c, data[lo])
    ELSE CrcFold(data, ((lo + hi) \div 2) + 1, hi,
                 CrcFold(data, lo, (lo + hi) \div 2, c))

\* the CRC of n copies of each byte, computed once: entry b + 1 is the CRC
\* of n copies of b
CrcOfCopies(n) ==
    SubSeq([b \in 1..256 |-> CrcFold([k \in 1..n |-> b - 1], 1, n, 0)], 1, 256)

CrcOfSohCopies == CrcOfCopies(SohSize)
CrcOfStxCopies == CrcOfCopies(StxSize)

\* crc16::State::<crc16::XMODEM>::calculate: polynomial 0x1021, initial 0,
\* most significant bit first, no reflection, no final xor (looked up when
\* data is SohSize or StxSize copies of one byte)
calc_crc(data) ==
    IF Len(data) \in {SohSize, StxSize} /\ \A k \in 2..Len(data) : data[k] = data[1]
    THEN IF Len(data) = SohSize THEN CrcOfSohCopies[data[1] + 1]
         ELSE CrcOfStxCopies[data[1] + 1]
    ELSE CrcFold(data, 1, Len(data), 0)

RECURSIVE SumFold(_, _, _)
\* the sum of data[lo..hi]
SumFold(data, lo, hi) ==
    IF lo > hi THEN 0
    ELSE IF lo = hi THEN data[lo]
    ELSE LET mid == (lo + hi) \div 2
         IN SumFold(data, lo, mid) + SumFold(data, mid + 1, hi)

\* data.iter().fold(0, |x, &y| x.wrapping_add(y))
calc_checksum(data) == SumFold(data, 1, Len(data)) % 256

\* ------------------------------------------------------------- sequences

Min(a, b) == IF a < b THEN a ELSE b

\* s without its first n elements
Drop(s, n) == SubSeq(s, n + 1, Len(s))

\* the first n elements of s
Take(s, n) == SubSeq(s, 1, n)

\* n copies of b
Fill(n, b) == [i \in 1..n |-> b]

\* ---------------------------------------------------------------- text

\* the length of the UTF-8 encoding that starts with byte b: 0 for a byte
\* that starts none
Utf8Len(b) ==
    IF b < 128 THEN 1
    ELSE IF b \in 194..223 THEN 2
    ELSE IF b \in 224..239 THEN 3
    ELSE IF b \in 240..244 THEN 4
    ELSE 0

\* a continuation byte
Utf8Cont(b) == b \in 128..191

\* whether c can follow the first byte b of an encoding
Utf8Second(b, c) ==
    IF b = 224 THEN c \in 160..191
    ELSE IF b = 237 THEN c \in 128..159
    ELSE IF b = 240 THEN c \in 144..191
    ELSE IF b = 244 THEN c \in 128..143
    ELSE Utf8Cont(c)

\* std::str::from_utf8(s).is_ok(): every byte starts an encoding that the
\* bytes after it complete, or continues one started at most 3 bytes before
Utf8Valid(s) ==
    \A k \in 1..Len(s) :
        IF Utf8Cont(s[k])
        THEN \E d \in 1..3 :
                /\ k - d >= 1
                /\ Utf8Len(s[k - d]) > d
                /\ \A m \in 1..(d - 1) : Utf8Cont(s[k - m])
        ELSE /\ Utf8Len(s[k]) >= 1
             /\ \A m \in 1..(Utf8Len(s[k]) - 1) :
                   /\ k + m <= Len(s)
                   /\ IF m = 1 THEN Utf8Second(s[k], s[k + 1]) ELSE Utf8Cont(s[k + m])

\* the value of the decimal digits s after the value acc of those before;
\* -1 once the value is 10^9 or more
RECURSIVE DecimalValue(_, _)
DecimalValue(s, acc) ==
    IF s = <<>> \/ acc < 0 THEN acc
    ELSE DecimalValue(Tail(s), IF acc >= 100000000 THEN -1
                               ELSE acc * 10 + (Head(s) - 48))

\* str::parse::<u32>() of the text s: its value, -1 when it is an Err.  The
\* values from 10^9 to 2^32 - 1, which parse, are beyond the integers of the
\* checker and count as an Err; no text tried is that long.
ParseU32(s) ==
    LET digits == IF s # <<>> /\ s[1] = 43 THEN Tail(s) ELSE s
    IN IF digits = <<>> \/ \E k \in 1..Len(digits) : digits[k] \notin 48..57
       THEN -1
       ELSE DecimalValue(digits, 0)

\* the bytes of s that chars().filter(|c| c.is_digit(10)) keeps
RECURSIVE OnlyDigits(_)
OnlyDigits(s) ==
    IF s = <<>> THEN <<>>
    ELSE (IF Head(s) \in 48..57 THEN <<Head(s)>> ELSE <<>>) \o OnlyDigits(Tail(s))

\* split(" ").next(): s up to its first space
RECURSIVE BeforeSpace(_)
BeforeSpace(s) ==
    IF s = <<>> \/ Head(s) = 32 THEN <<>>
    ELSE <<Head(s)>> \o BeforeSpace(Tail(s))

\* the file size recv parses from file_size_buf: -1 when it panics
FileSizeNum(file_size_buf, ignore_non_digits) ==
    LET raw == Take(file_size_buf, Len(file_size_buf) - 1)
        file_size_str == IF ignore_non_digits THEN OnlyDigits(raw) ELSE raw
        first == ParseU32(file_size_str)
    IN IF ~Utf8Valid(raw) THEN -1
       ELSE IF first >= 0 THEN first
       ELSE ParseU32(BeforeSpace(file_size_str))

\* the first index from `from` on at which the items `it` read from dev hold
\* a zero byte or a failed read; `it` ends with a failed read
StopAt(it, from) ==
    LET stops == {k \in from..Len(it) : it[k] = 0 \/ ~IsByte(it[k])}
    IN IF stops = {} THEN Len(it)
       ELSE CHOOSE k \in stops : \A m \in stops : k <= m

\* how the reads of a header packet by recv end when dev returns the items
\* `it` and the buffers hold nb (name) and sb (size) already, and the number
\* of the last item read: "io" for a read that fails, "panic" for a name that
\* is not UTF-8, "overflow" when the padding length goes below zero (the
\* subtraction panics, or wraps and the reads go on until one fails), "ok"
\* when the packet is read to its end
YHeaderScan(it, nb, sb) ==
    IF ~IsByte(it[1]) THEN <<"io", 1>>
    ELSE IF ~IsByte(it[2]) THEN <<"io", 2>>
    ELSE LET i == StopAt(it, 3) IN
    IF ~IsByte(it[i]) THEN <<"io", i>>
    ELSE IF ~Utf8Valid(nb \o SubSeq(it, 3, i - 1)) THEN <<"panic", i>>
    ELSE LET j == StopAt(it, i + 1) IN
    IF ~IsByte(it[j]) THEN <<"io", j>>
    ELSE LET pad == SohSize - (Len(nb) + i - 2) - (Len(sb) + j - i)
             bad == {k \in (j + 1)..Min(j + pad + 2, Len(it)) : ~IsByte(it[k])}
         IN
    IF pad < 0 THEN <<"overflow", Len(it)>>
    ELSE IF bad = {} THEN <<"ok", j + pad + 2>>
    ELSE <<"io", CHOOSE k \in bad : \A m \in bad : k <= m>>

\* -------------------------------------------------------------- bounds

\* largest value a caller gives max_errors / max_initial_errors
MaxErrors == 2
MaxInitialErrors == 1
\* source lengths: up to MaxBlocks whole blocks, within MaxRem bytes of a
\* block boundary
MaxBlocks == 2
MaxRem == 1
\* top-level calls made on one engine value
MaxCalls == 2

\* ---------------------------------------------------------------- state

Endpoints == {"a", "b"}
Peer(e) == IF e = "a" THEN "b" ELSE "a"

VARIABLES
    xmodem,     \* [Endpoints -> Xmodem]: the engine value of xmodem.rs
    ymodem,     \* [Endpoints -> Ymodem]: the engine value of ymodem.rs
    pc,         \* [Endpoints -> label]: position of the running call
    loc,        \* [Endpoints -> record]: arguments and locals of the call
    rx,         \* [Endpoints -> Seq]: bytes written to dev by the linked peer, unread
    tx,         \* [Endpoints -> Seq]: bytes the running call wrote to dev
    stream,     \* [Endpoints -> Seq]: what is left of the source
    outstream,  \* [Endpoints -> Seq]: the sink
    ret,        \* [Endpoints -> result of the last call]
    calls,      \* [Endpoints -> number of calls started]
    linked,     \* TRUE: the endpoints read each other's writes
    hist        \* [Endpoints -> record]: observations of the running call

vars == <<xmodem, ymodem, pc, loc, rx, tx, stream, outstream, ret, calls, linked, hist>>

\* Xmodem::new()
XmodemNew ==
    [max_errors |-> 16, max_initial_errors |-> 16, pad_byte |-> 26,
     block_length |-> SohSize, checksum_mode |-> "Standard",
     errors |-> 0, initial_errors |-> 0]

\* Ymodem::new()
YmodemNew ==
    [max_errors |-> 16, max_initial_errors |-> 16, pad_byte |-> 26,
     errors |-> 0, initial_errors |-> 0, ignore_non_digits_on_file_size |-> FALSE]

\* locals of a call before it starts
\* the fields of an Xmodem value that its caller sets
XConfig(xm) == <<xm.max_errors, xm.max_initial_errors, xm.pad_byte, xm.block_length>>

\* the fields of a Ymodem value that its caller sets
YConfig(ym) ==
    <<ym.max_errors, ym.max_initial_errors, ym.pad_byte,
      ym.ignore_non_digits_on_file_size>>

NoLocals ==
    [op |-> "none", checksum |-> "Standard", cancels |-> 0, block_num |-> 0,
     packet_num |-> 0, handled_first_packet |-> FALSE, first_char |-> 0,
     packet_size |-> 0,
     file_name |-> <<>>, file_size |-> 0, packets_to_send |-> 0,
     last_packet_size |-> 0, file_name_buf |-> <<>>, file_size_buf |-> <<>>,
     padding_buf |-> <<>>, file_buf |-> <<>>, num_of_packets |-> 0,
     range |-> 0, received_first_eot |-> FALSE, peer |-> "any"]

\* observations of a call before it starts:
\*   source    what the call was given as its source
\*   soft      soft failures a sending call met (answers that are not the
\*             awaited byte, timeouts), or a Ymodem::recv call met in its
\*             third loop (timeouts, bytes it does not know, packets whose
\*             CRC does not match)
\*   acked     data packets answered with ACK (by the peer of a sending call,
\*             by a receiving call)
\*   polls     poll bytes written by a receiving call
\*   last      outcome of the last read of dev by a sending call
\*   cause     the read outcome that made the call return an I/O error
\*   midpkt    that read was inside a packet (after its header byte)
\*   silent    every read of dev by the call has timed out so far
\*   onlynak   every read of dev by a sending call has returned NAK so far
\*   poll      the byte that completed the handshake of a sending call
\*             (TimedOut: none yet)
\*   eots      for each EOT a receiving call read in its main phase, the
\*             lengths of the log of writes before and after its answer
\*   header    what dev held for the reads of the last header packet a
\*             Ymodem::recv call read
\*   entry     the fields of the two engine values that the caller sets, as
\*             they were when the call was entered
\*   acks      for each packet an Xmodem::recv call answered with ACK, its
\*             sequence byte and the size of its payload
\*   got       for each read of a Ymodem::send call that returned the byte
\*             awaited, that byte and the length of the log of writes then
\*   accepted  the payloads of the packets a receiving call answered with
\*             ACK after its header packet, one after the other
\*   pkt       the last packet a receiving call read to its end: its sequence
\*             and complement bytes, the sequence number expected, whether
\*             its verification matched, and how much had been written to
\*             dev and to the sink before it
NoPkt ==
    [pnum |-> -1, pnum_1c |-> -1, expected |-> -1, verified |-> FALSE,
     txlen |-> 0, sinklen |-> 0]

NoHist ==
    [source |-> <<>>, soft |-> 0, acked |-> 0, polls |-> 0, last |-> ACK,
     cause |-> 0, midpkt |-> FALSE, silent |-> TRUE, onlynak |-> TRUE,
     pkt |-> NoPkt, poll |-> TimedOut, eots |-> <<>>,
     header |-> <<>>, acks |-> <<>>, got |-> <<>>, accepted |-> <<>>,
     entry |-> <<XConfig(XmodemNew), YConfig(YmodemNew)>>]

Running(e) == pc[e] # "idle"

\* ------------------------------------------------------------------ dev

\* labels at which the call is blocked in a read of one byte
ByteReadLabels ==
    {"x_start_send", "x_await_ack", "x_await_eot_ack", "x_probe_read", "x_recv_loop",
     "y_start_send", "y_await_start_ack", "y_await_start_c", "y_await_ack",
     "y_await_eot_nak", "y_await_eot_ack", "y_await_eot_c", "y_await_end_ack",
     "y_probe_read", "y_recv_data"}

\* labels at which the call is blocked reading the rest of a packet
BodyReadLabels == {"x_recv_packet", "y_recv_packet"}

\* number of bytes the packet read at a body label takes
BodyNeed(e) ==
    2 + loc[e].packet_size
      + (IF loc[e].op = "xrecv" /\ xmodem[e].checksum_mode = "Standard" THEN 1 ELSE 2)

\* the items a linked endpoint reads at a header packet: all the peer has
\* written, then a timeout
HeaderItems(e) == rx[e] \o <<TimedOut>>

\* the last of them that the reads of the header packet get to
HeaderUsed(e) ==
    YHeaderScan(HeaderItems(e), loc[e].file_name_buf, loc[e].file_size_buf)[2]

\* the linked peer sends nothing until it is written to
Quiet(p) ==
    \/ pc[p] = "idle" /\ calls[p] > 0
    \/ pc[p] \in ByteReadLabels /\ rx[p] = <<>>
       /\ ~(pc[p] = "x_recv_loop" /\ ~loc[p].handled_first_packet)
    \/ pc[p] \in BodyReadLabels /\ Len(rx[p]) < BodyNeed(p)
    \/ pc[p] = "y_recv_header" /\ HeaderUsed(p) > Len(rx[p])

\* what an unlinked peer answers to a read of one byte: to a sender (the
\* bytes a sender tells apart, and 0 for every other byte) and to a receiver
PeerReplies == {ACK, NAK, CAN, CRC, 0, TimedOut, IoFail}
PeerSends == {SOH, STX, EOT, 0, TimedOut, IoFail}

\* labels of the calls that receive
RecvLabels ==
    {"x_probe", "x_probe_read", "x_recv_loop", "x_recv_packet",
     "y_probe", "y_probe_read", "y_recv_header", "y_recv_data", "y_recv_packet"}

\* get_byte_timeout(dev) / get_byte(dev): the outcomes of the next read of one
\* byte.  Linked: the next unread byte; a timeout when there is none and the
\* peer is itself waiting or has returned.  Unlinked: whatever the peer decides.
Reads(e) ==
    IF linked
    THEN IF rx[e] # <<>> THEN {Head(rx[e])}
         ELSE IF Quiet(Peer(e)) THEN {TimedOut} ELSE {}
    ELSE IF pc[e] \in RecvLabels THEN PeerSends ELSE PeerReplies

\* the queues after endpoint e consumed n bytes of dev and wrote `bytes`
Dev(e, n, bytes) ==
    /\ rx' = [q \in Endpoints |->
                IF q = e THEN Drop(rx[q], Min(n, Len(rx[q])))
                ELSE IF linked THEN rx[q] \o bytes ELSE rx[q]]
    /\ tx' = [tx EXCEPT ![e] = @ \o bytes]

\* the call of endpoint e returns r
Return(e, r) ==
    /\ pc' = [pc EXCEPT ![e] = "idle"]
    /\ ret' = [ret EXCEPT ![e] = r]

\* a call of endpoint e starts at label l
Enter(e, l) ==
    /\ pc' = [pc EXCEPT ![e] = l]
    /\ ret' = [ret EXCEPT ![e] = "none"]

Goto(e, l) ==
    /\ pc' = [pc EXCEPT ![e] = l]
    /\ UNCHANGED ret

\* a sending call read r, a soft failure or not
Seen(h, r) ==
    [h EXCEPT !.last = r, !.silent = @ /\ r = TimedOut, !.onlynak = @ /\ r = NAK]
Soft(h, r) == [Seen(h, r) EXCEPT !.soft = @ + 1]

\* a call returns an I/O error on the read outcome r
Failed(h, r, mid) ==
    [h EXCEPT !.cause = r, !.midpkt = mid, !.silent = FALSE, !.onlynak = FALSE]

\* ------------------------------------------------- packets of the peer

\* data packets an unlinked peer has accepted before it stops sending more
MaxPackets == 2
\* largest sequence number an unlinked peer numbers a packet with
MaxSeq == 3

\* the byte an unlinked peer fills the payload of packet number seq with
PeerFill(seq) == 65 + seq

\* the rest of a packet after its header byte, as an unlinked peer sends it:
\* sequence, complement (off by dc), payload, verification (off by dv)
PeerBody(size, mode, seq, dc, dv) ==
    LET payload == Fill(size, PeerFill(seq))
        crc == (calc_crc(payload) + dv) % 65536
    IN <<seq, (255 - seq + dc) % 256>> \o payload
       \o (IF mode = "Standard"
           THEN <<(calc_checksum(payload) + dv) % 256>>
           ELSE <<crc \div 256, crc % 256>>)

\* a packet cut short after k bytes by the read outcome r
PeerCut(size, mode, k, r) == Take(PeerBody(size, mode, 1, 0, 0), k) \o <<r>>

PeerBodies(size, mode) ==
    {PeerBody(size, mode, seq, dc, dv) : seq \in 0..MaxSeq, dc \in {0, 1}, dv \in {0, 1}}
    \cup {PeerCut(size, mode, k, r) : k \in {0, size + 2}, r \in {TimedOut, IoFail}}

\* those of the packets `bodies` that an unlinked peer sends when the
\* receiver expects the sequence number q: the ones numbered q, the ones
\* numbered q + 1 with the right complement, the ones cut short
PeerBodiesAt(bodies, q) ==
    {b \in bodies :
        \/ ~IsByte(b[Len(b)])
        \/ b[1] = q
        \/ b[1] = (q + 1) % 256 /\ b[2] = 255 - b[1]}

PeerBodiesSohStandard == PeerBodies(SohSize, "Standard")
PeerBodiesSohCrc == PeerBodies(SohSize, "CRC16")
PeerBodiesStxStandard == PeerBodies(StxSize, "Standard")
PeerBodiesStxCrc == PeerBodies(StxSize, "CRC16")

\* ---------------------------------------------------------- sources

\* byte number i of a source
SrcByte(i) == (i * 7 + 3) % 256

\* the source lengths tried with blocks of bl bytes
SrcLens(bl) ==
    {n \in 0..(MaxBlocks * bl) : n % bl <= MaxRem \/ n % bl >= bl - MaxRem}

Source(n) == [i \in 1..n |-> SrcByte(i)]

\* ------------------------------------------------------ Xmodem::send

\* Exhausted giving up only past the cap
ExhaustedPastCap(errors, max_errors) == errors > max_errors

\* whether a sender gives up with errors failures counted
Exhausted(errors, max_errors) == errors >= max_errors

\* CancelsReached asking for a third CAN
CancelsReachedAtThree(cancels) == cancels >= 3

\* whether start_send gives up with `cancels` CAN bytes read
CancelsReached(cancels) == cancels >= 2

\* Xmodem::send is called on the engine value of endpoint e: the caller has
\* set the public fields (both caps to me, as the callers of test.rs do), the
\* source holds n bytes
XSendCall(e, me, bl, n) ==
    /\ pc[e] = "idle"
    /\ calls' = [calls EXCEPT ![e] = @ + 1]
    /\ xmodem' = [xmodem EXCEPT ![e] =
                    [@ EXCEPT !.max_errors = me, !.max_initial_errors = me,
                              !.block_length = bl, !.errors = 0]]
    /\ loc' = [loc EXCEPT ![e] = [NoLocals EXCEPT !.op = "xsend"]]
    /\ stream' = [stream EXCEPT ![e] = Source(n)]
    /\ hist' = [hist EXCEPT ![e] =
                  [NoHist EXCEPT !.source = Source(n),
                                 !.entry = <<XConfig(xmodem'[e]), YConfig(ymodem[e])>>]]
    /\ tx' = [tx EXCEPT ![e] = <<>>]
    /\ outstream' = [outstream EXCEPT ![e] = <<>>]
    /\ Enter(e, "x_start_send")
    /\ UNCHANGED <<ymodem, rx, linked>>

\* XSelected choosing the block length with the mode
XSelectedWithBlock(xm, r) ==
    [xm EXCEPT !.checksum_mode = IF r = NAK THEN "Standard" ELSE "CRC16",
               !.block_length = IF r = NAK THEN SohSize ELSE StxSize]

\* the engine value xm after the poll byte r has selected the checksum mode
XSelected(xm, r) ==
    [xm EXCEPT !.checksum_mode = IF r = NAK THEN "Standard" ELSE "CRC16"]

\* start_send: one iteration of the loop, on the outcome r of its read
XStartSend(e, r) ==
    LET xm == xmodem[e]
        cancels == loc[e].cancels + (IF r = CAN THEN 1 ELSE 0)
        errors == xm.errors + 1
    IN
    /\ pc[e] = "x_start_send"
    /\ UNCHANGED <<ymodem, stream, outstream, calls, linked>>
    /\ IF r = IoFail
       THEN /\ Return(e, "Io")
            /\ Dev(e, 1, <<>>)
            /\ hist' = [hist EXCEPT ![e] = Failed(@, r, FALSE)]
            /\ UNCHANGED <<xmodem, loc>>
       ELSE IF r \in {NAK, CRC}
       THEN /\ xmodem' = [xmodem EXCEPT ![e] = XSelected(@, r)]
            /\ loc' = [loc EXCEPT ![e].block_num = 0]
            /\ hist' = [hist EXCEPT ![e] = [Seen(@, r) EXCEPT !.poll = r]]
            /\ Dev(e, 1, <<>>)
            /\ Goto(e, "x_send_stream")
       ELSE /\ xmodem' = [xmodem EXCEPT ![e].errors = errors]
            /\ loc' = [loc EXCEPT ![e].cancels = cancels]
            /\ hist' = [hist EXCEPT ![e] = Soft(@, r)]
            /\ IF CancelsReached(cancels)
               THEN Return(e, "Canceled") /\ Dev(e, 1, <<>>)
               ELSE IF Exhausted(errors, xm.max_errors)
               THEN Return(e, "ExhaustedRetries") /\ Dev(e, 1, <<CAN>>)
               ELSE Goto(e, "x_start_send") /\ Dev(e, 1, <<>>)

\* XPacket with the low byte of the CRC before the high byte
XPacketCrcLowFirst(xm, block_num, data) ==
    LET payload == data \o Fill(xm.block_length - Len(data), xm.pad_byte)
        seq == block_num % 256
        crc == calc_crc(payload)
    IN <<IF xm.block_length = SohSize THEN SOH ELSE STX, seq, 255 - seq>>
       \o payload
       \o (IF xm.checksum_mode = "Standard"
           THEN <<calc_checksum(payload)>>
           ELSE <<crc % 256, (crc \div 256) % 256>>)

\* the packet send_stream builds for block number block_num from the n bytes
\* read from the source
XPacket(xm, block_num, data) ==
    LET payload == data \o Fill(xm.block_length - Len(data), xm.pad_byte)
        seq == block_num % 256
        crc == calc_crc(payload)
    IN <<IF xm.block_length = SohSize THEN SOH ELSE STX, seq, 255 - seq>>
       \o payload
       \o (IF xm.checksum_mode = "Standard"
           THEN <<calc_checksum(payload)>>
           ELSE <<(crc \div 256) % 256, crc % 256>>)

\* what block_num becomes for the next packet
XNextBlock(block_num) == block_num + 1

\* send_stream: the top of the loop, up to the write of the packet
XSendStream(e) ==
    LET xm == xmodem[e]
        n == Min(xm.block_length, Len(stream[e]))
        block_num == XNextBlock(loc[e].block_num)
    IN
    /\ pc[e] = "x_send_stream"
    /\ UNCHANGED <<xmodem, ymodem, outstream, calls, linked, hist>>
    /\ IF n = 0
       THEN /\ Goto(e, "x_finish_send")
            /\ UNCHANGED <<loc, stream, rx, tx>>
       ELSE /\ stream' = [stream EXCEPT ![e] = Drop(@, n)]
            /\ loc' = [loc EXCEPT ![e].block_num = block_num]
            /\ Dev(e, 0, XPacket(xm, block_num, Take(stream[e], n)))
            /\ Goto(e, "x_await_ack")

\* whether the answer r to a data packet lets the sender go on
XAcked(r) == r = ACK

\* send_stream: the read of the answer to a packet, to the end of the iteration
XAwaitAck(e, r) ==
    LET xm == xmodem[e]
        errors == xm.errors + 1
    IN
    /\ pc[e] = "x_await_ack"
    /\ UNCHANGED <<ymodem, stream, outstream, calls, linked, loc>>
    /\ Dev(e, 1, <<>>)
    /\ IF r = IoFail
       THEN /\ Return(e, "Io")
            /\ hist' = [hist EXCEPT ![e] = Failed(@, r, FALSE)]
            /\ UNCHANGED xmodem
       ELSE IF XAcked(r)
       THEN /\ Goto(e, "x_send_stream")
            /\ hist' = [hist EXCEPT ![e] =
                          [Seen(@, r) EXCEPT !.acked = @ + 1]]
            /\ UNCHANGED xmodem
       ELSE /\ xmodem' = [xmodem EXCEPT ![e].errors = errors]
            /\ hist' = [hist EXCEPT ![e] = Soft(@, r)]
            /\ IF Exhausted(errors, xm.max_errors)
               THEN Return(e, "ExhaustedRetries")
               ELSE Goto(e, "x_send_stream")

\* finish_send: the top of the loop, the write of EOT
XFinishSend(e) ==
    /\ pc[e] = "x_finish_send"
    /\ Dev(e, 0, <<EOT>>)
    /\ Goto(e, "x_await_eot_ack")
    /\ UNCHANGED <<xmodem, ymodem, stream, outstream, calls, linked, loc, hist>>

\* finish_send: the read of the answer to EOT, to the end of the iteration
XAwaitEotAck(e, r) ==
    LET xm == xmodem[e]
        errors == xm.errors + 1
    IN
    /\ pc[e] = "x_await_eot_ack"
    /\ UNCHANGED <<ymodem, stream, outstream, calls, linked, loc>>
    /\ Dev(e, 1, <<>>)
    /\ IF r = IoFail
       THEN Return(e, "Io") /\ hist' = [hist EXCEPT ![e] = Failed(@, r, FALSE)]
            /\ UNCHANGED xmodem
       ELSE IF r = ACK
       THEN Return(e, "Ok") /\ hist' = [hist EXCEPT ![e] = Seen(@, r)] /\ UNCHANGED xmodem
       ELSE /\ xmodem' = [xmodem EXCEPT ![e].errors = errors]
            /\ hist' = [hist EXCEPT ![e] = Soft(@, r)]
            /\ IF Exhausted(errors, xm.max_errors)
               THEN Return(e, "ExhaustedRetries")
               ELSE Goto(e, "x_finish_send")

\* ------------------------------------------------------ Xmodem::recv

\* the outcomes of reading the rest of a packet: the bytes the reads return,
\* ended by TimedOut or IoFail when a read fails (none when the call is not
\* at those reads)
XBodies(e) ==
    IF pc[e] # "x_recv_packet" THEN {}
    ELSE IF linked
    THEN IF Len(rx[e]) >= BodyNeed(e) THEN {Take(rx[e], BodyNeed(e))}
         ELSE IF Quiet(Peer(e)) THEN {rx[e] \o <<TimedOut>>} ELSE {}
    ELSE PeerBodiesAt(IF loc[e].packet_size = SohSize
                      THEN IF xmodem[e].checksum_mode = "Standard"
                           THEN PeerBodiesSohStandard ELSE PeerBodiesSohCrc
                      ELSE IF xmodem[e].checksum_mode = "Standard"
                           THEN PeerBodiesStxStandard ELSE PeerBodiesStxCrc,
                      loc[e].packet_num)

\* Xmodem::recv is called on the engine value of endpoint e: the caller has
\* set the caps
XRecvCall(e, me, mi, checksum) ==
    /\ pc[e] = "idle"
    /\ calls' = [calls EXCEPT ![e] = @ + 1]
    /\ xmodem' = [xmodem EXCEPT ![e] =
                    [@ EXCEPT !.max_errors = me, !.max_initial_errors = mi,
                              !.errors = 0, !.checksum_mode = checksum]]
    /\ loc' = [loc EXCEPT ![e] =
                 [NoLocals EXCEPT !.op = "xrecv", !.checksum = checksum,
                                  !.handled_first_packet = FALSE]]
    /\ outstream' = [outstream EXCEPT ![e] = <<>>]
    /\ hist' = [hist EXCEPT ![e] =
                  [NoHist EXCEPT !.entry = <<XConfig(xmodem'[e]), YConfig(ymodem[e])>>]]
    /\ tx' = [tx EXCEPT ![e] = <<>>]
    /\ stream' = [stream EXCEPT ![e] = <<>>]
    /\ Enter(e, "x_probe")
    /\ UNCHANGED <<ymodem, rx, linked>>

\* the poll byte of a checksum mode
XPoll(mode) == IF mode = "Standard" THEN NAK ELSE CRC

\* recv, first loop: the write of the poll byte
XProbe(e) ==
    /\ pc[e] = "x_probe"
    /\ Dev(e, 0, <<XPoll(xmodem[e].checksum_mode)>>)
    /\ hist' = [hist EXCEPT ![e].polls = @ + 1]
    /\ Goto(e, "x_probe_read")
    /\ UNCHANGED <<xmodem, ymodem, stream, outstream, calls, linked, loc>>

\* XProbeExhausted giving up as soon as the cap is met
XProbeExhaustedAtCap(initial_errors, max_initial_errors) ==
    initial_errors >= max_initial_errors

\* whether the probe gives up with initial_errors failures counted
XProbeExhausted(initial_errors, max_initial_errors) ==
    initial_errors > max_initial_errors

\* recv, first loop: the read of the answer to the poll byte
XProbeRead(e, r) ==
    LET xm == xmodem[e]
        initial_errors == xm.initial_errors + 1
    IN
    /\ pc[e] = "x_probe_read"
    /\ Dev(e, 1, <<>>)
    /\ UNCHANGED <<ymodem, stream, outstream, calls, linked>>
    /\ IF r = IoFail
       THEN Return(e, "Io") /\ hist' = [hist EXCEPT ![e] = Failed(@, r, FALSE)]
            /\ UNCHANGED <<xmodem, loc>>
       ELSE IF r \in {SOH, STX}
       THEN /\ loc' = [loc EXCEPT ![e].first_char = r, ![e].packet_num = 1]
            /\ hist' = [hist EXCEPT ![e].silent = FALSE]
            /\ Goto(e, "x_recv_loop")
            /\ UNCHANGED xmodem
       ELSE /\ xmodem' = [xmodem EXCEPT ![e].initial_errors = initial_errors]
            /\ hist' = [hist EXCEPT ![e].silent = @ /\ r = TimedOut]
            /\ UNCHANGED loc
            /\ IF XProbeExhausted(initial_errors, xm.max_initial_errors)
               THEN Return(e, "ExhaustedRetries")
               ELSE Goto(e, "x_probe")

\* what the second loop of recv matches on: the first header byte, then the
\* outcome of a read
XRecvItems(e) ==
    IF loc[e].handled_first_packet
    THEN IF linked THEN Reads(e)
         ELSE IF hist[e].acked < MaxPackets THEN PeerSends ELSE PeerSends \ {SOH, STX}
    ELSE {loc[e].first_char}

\* recv, second loop: the match on the next byte, up to the read of a packet
\* or the end of the iteration
XRecvLoop(e, r) ==
    LET xm == xmodem[e]
        handled == loc[e].handled_first_packet
        errors == IF r = TimedOut
                  THEN IF ~handled THEN xm.max_errors ELSE xm.errors + 1
                  ELSE xm.errors
    IN
    /\ pc[e] = "x_recv_loop"
    /\ UNCHANGED <<ymodem, stream, outstream, calls, linked>>
    /\ hist' = [hist EXCEPT ![e] =
                  IF r = IoFail THEN Failed(@, r, FALSE)
                  ELSE [@ EXCEPT !.silent = @ /\ handled /\ r = TimedOut]]
    /\ IF r = IoFail
       THEN Return(e, "Io") /\ Dev(e, 1, <<>>) /\ UNCHANGED <<xmodem, loc>>
       ELSE IF r \in {SOH, STX}
       THEN /\ loc' = [loc EXCEPT ![e].handled_first_packet = TRUE,
                                  ![e].packet_size = IF r = SOH THEN SohSize ELSE StxSize]
            /\ Dev(e, IF handled THEN 1 ELSE 0, <<>>)
            /\ Goto(e, "x_recv_packet")
            /\ UNCHANGED xmodem
       ELSE IF r = EOT
       THEN /\ Dev(e, 1, <<ACK>>)
            /\ Return(e, "Ok")
            /\ UNCHANGED <<xmodem, loc>>
       ELSE /\ xmodem' = [xmodem EXCEPT ![e].errors = errors]
            /\ Dev(e, 1, <<>>)
            /\ UNCHANGED loc
            /\ IF errors >= xm.max_errors
               THEN Return(e, "ExhaustedRetries")
               ELSE Goto(e, "x_recv_loop")

\* CancelPacket without the check of the complement
CancelPacketNoComplement(packet_num, pnum, pnum_1c) == packet_num # pnum

\* whether a packet numbered pnum with complement pnum_1c is out of sequence
\* when packet_num is expected
CancelPacket(packet_num, pnum, pnum_1c) ==
    packet_num # pnum \/ (255 - pnum) # pnum_1c

\* whether the verification bytes ver match the payload data
XVerified(mode, data, ver) ==
    IF mode = "Standard"
    THEN calc_checksum(data) = ver[1]
    ELSE calc_crc(data) = ver[1] * 256 + ver[2]

\* what the receiver writes for a packet it accepts
XAccept == <<ACK>>

\* XDelivered writing the payload twice
XDeliveredTwice(data) == data \o data

\* what recv writes to the sink for an accepted packet: all of its payload
XDelivered(data) == data

\* recv, second loop: the reads of the rest of a packet, from the sequence
\* byte to the verification, and the answer, to the end of the iteration
XRecvPacket(e, body) ==
    LET xm == xmodem[e]
        size == loc[e].packet_size
        need == BodyNeed(e)
        failed == {i \in 1..Min(need, Len(body)) : ~IsByte(body[i])}
        at == CHOOSE i \in failed : \A j \in failed : i <= j
        pnum == body[1]
        pnum_1c == body[2]
        data == SubSeq(body, 3, size + 2)
        ver == SubSeq(body, size + 3, need)
        cancel_packet == CancelPacket(loc[e].packet_num, pnum, pnum_1c)
        success == XVerified(xm.checksum_mode, data, ver)
        errors == IF success THEN xm.errors ELSE xm.errors + 1
        pkt == [pnum |-> pnum, pnum_1c |-> pnum_1c, expected |-> loc[e].packet_num,
                verified |-> success, txlen |-> Len(tx[e]),
                sinklen |-> Len(outstream[e])]
    IN
    /\ pc[e] = "x_recv_packet"
    /\ UNCHANGED <<ymodem, stream, calls, linked>>
    /\ IF failed # {}
       THEN /\ Return(e, "Io")
            /\ Dev(e, at, <<>>)
            /\ hist' = [hist EXCEPT ![e] = Failed(@, body[at], TRUE)]
            /\ UNCHANGED <<xmodem, loc, outstream>>
       ELSE IF cancel_packet
       THEN /\ Return(e, "Canceled")
            /\ Dev(e, need, <<CAN, CAN>>)
            /\ hist' = [hist EXCEPT ![e].pkt = pkt]
            /\ UNCHANGED <<xmodem, loc, outstream>>
       ELSE /\ xmodem' = [xmodem EXCEPT ![e].errors = errors]
            /\ IF success
               THEN /\ loc' = [loc EXCEPT ![e].packet_num = (@ + 1) % 256]
                    /\ Dev(e, need, XAccept)
                    /\ outstream' = [outstream EXCEPT ![e] = @ \o XDelivered(data)]
                    /\ hist' = [hist EXCEPT ![e].acked = @ + 1, ![e].pkt = pkt,
                                            ![e].acks = Append(@, <<pnum, size>>)]
               ELSE /\ Dev(e, need, <<NAK>>)
                    /\ hist' = [hist EXCEPT ![e].pkt = pkt]
                    /\ UNCHANGED <<loc, outstream>>
            /\ IF errors >= xm.max_errors
               THEN Return(e, "ExhaustedRetries")
               ELSE Goto(e, "x_recv_loop")

\* ------------------------------------------------------ Ymodem::send

\* largest number of bytes of a file name
MaxName == 1

\* the file names tried
FileNames == {Fill(k, 102) : k \in 0..MaxName}

\* Ymodem::send is called on the engine value of endpoint e: the caller has
\* set the caps (both to me, as the callers of test.rs do), the source holds
\* n bytes and file_size_in_bytes is size
YSendCall(e, me, name, n, size) ==
    /\ pc[e] = "idle"
    /\ calls' = [calls EXCEPT ![e] = @ + 1]
    /\ ymodem' = [ymodem EXCEPT ![e] =
                    [@ EXCEPT !.max_errors = me, !.max_initial_errors = me,
                              !.errors = 0]]
    /\ loc' = [loc EXCEPT ![e] =
                 [NoLocals EXCEPT !.op = "ysend", !.file_name = name,
                                  !.file_size = size,
                                  !.packets_to_send = (size + StxSize - 1) \div StxSize,
                                  !.last_packet_size = size % StxSize]]
    /\ stream' = [stream EXCEPT ![e] = Source(n)]
    /\ hist' = [hist EXCEPT ![e] =
                  [NoHist EXCEPT !.source = Source(n),
                                 !.entry = <<XConfig(xmodem[e]), YConfig(ymodem'[e])>>]]
    /\ tx' = [tx EXCEPT ![e] = <<>>]
    /\ outstream' = [outstream EXCEPT ![e] = <<>>]
    /\ Enter(e, "y_start_send")
    /\ UNCHANGED <<xmodem, rx, linked>>

\* start_send: one iteration of the loop, on the outcome r of its read
YStartSend(e, r) ==
    LET ym == ymodem[e]
        cancels == loc[e].cancels + (IF r = CAN THEN 1 ELSE 0)
        errors == ym.errors + 1
    IN
    /\ pc[e] = "y_start_send"
    /\ UNCHANGED <<xmodem, stream, outstream, calls, linked>>
    /\ IF r = IoFail
       THEN /\ Return(e, "Io")
            /\ Dev(e, 1, <<>>)
            /\ hist' = [hist EXCEPT ![e] = Failed(@, r, FALSE)]
            /\ UNCHANGED <<ymodem, loc>>
       ELSE IF r = CRC
       THEN /\ hist' = [hist EXCEPT ![e] =
                          [Seen(@, r) EXCEPT !.poll = r,
                                             !.got = Append(@, <<r, Len(tx[e])>>)]]
            /\ Dev(e, 1, <<>>)
            /\ Goto(e, "y_send_start_frame")
            /\ UNCHANGED <<ymodem, loc>>
       ELSE /\ ymodem' = [ymodem EXCEPT ![e].errors = errors]
            /\ loc' = [loc EXCEPT ![e].cancels = cancels]
            /\ hist' = [hist EXCEPT ![e] = Soft(@, r)]
            /\ IF CancelsReached(cancels)
               THEN Return(e, "Canceled") /\ Dev(e, 1, <<>>)
               ELSE IF Exhausted(errors, ym.max_errors)
               THEN Return(e, "ExhaustedRetries") /\ Dev(e, 1, <<CAN>>)
               ELSE Goto(e, "y_start_send") /\ Dev(e, 1, <<>>)

\* the ASCII code of the lowercase hexadecimal digit d
HexChar(d) == IF d < 10 THEN 48 + d ELSE 87 + d

\* format!("{:x}", n) as bytes
RECURSIVE HexDigits(_)
HexDigits(n) ==
    IF n < 16 THEN <<HexChar(n)>>
    ELSE HexDigits(n \div 16) \o <<HexChar(n % 16)>>

\* number of bytes of the buffer of a start or end frame before its CRC
FrameLen == SohSize + 3

\* buff after each of `bytes` in turn has been stored at index idx (from 0),
\* the index never advancing
RECURSIVE StoreAll(_, _, _)
StoreAll(buff, idx, bytes) ==
    IF bytes = <<>> THEN buff
    ELSE StoreAll([buff EXCEPT ![idx + 1] = Head(bytes)], idx, Tail(bytes))

\* whether send_start_frame indexes its buffer out of range
YStartFramePanics(name) == 3 + Len(name) + 1 >= FrameLen

\* a frame buffer followed by the CRC of its payload
WithCrc(buff) ==
    LET crc == calc_crc(SubSeq(buff, 4, Len(buff)))
    IN buff \o <<(crc \div 256) % 256, crc % 256>>

\* the frame send_start_frame writes
YStartFrame(name, size) ==
    LET named == [i \in 1..FrameLen |->
                    IF i = 1 THEN SOH
                    ELSE IF i = 2 THEN 0
                    ELSE IF i = 3 THEN 255
                    ELSE IF i - 3 <= Len(name) THEN name[i - 3] ELSE 0]
        curr_buff_idx == 3 + Len(name) + 1
    IN WithCrc(StoreAll(named, curr_buff_idx, HexDigits(size)))

\* send_start_frame: the write of the frame
YSendStartFrame(e) ==
    /\ pc[e] = "y_send_start_frame"
    /\ UNCHANGED <<xmodem, ymodem, stream, outstream, calls, linked, loc, hist>>
    /\ IF YStartFramePanics(loc[e].file_name)
       THEN Return(e, "panic") /\ UNCHANGED <<rx, tx>>
       ELSE /\ Dev(e, 0, YStartFrame(loc[e].file_name, loc[e].file_size))
            /\ Goto(e, "y_await_start_ack")

\* one iteration of a loop of the sender that waits for one of the bytes of
\* `accept`: on it the call goes on at label next (returns Ok when next is
\* "idle"), on anything else it counts a failure and goes on at label retry
YAwait(e, r, accept, next, retry) ==
    LET ym == ymodem[e]
        errors == ym.errors + 1
    IN
    /\ UNCHANGED <<xmodem, stream, outstream, calls, linked, loc>>
    /\ Dev(e, 1, <<>>)
    /\ IF r = IoFail
       THEN /\ Return(e, "Io")
            /\ hist' = [hist EXCEPT ![e] = Failed(@, r, FALSE)]
            /\ UNCHANGED ymodem
       ELSE IF r \in accept
       THEN /\ IF next = "idle" THEN Return(e, "Ok") ELSE Goto(e, next)
            /\ hist' = [hist EXCEPT ![e] =
                          [Seen(@, r) EXCEPT
                              !.acked = IF pc[e] = "y_await_ack" THEN @ + 1 ELSE @,
                              !.got = Append(@, <<r, Len(tx[e])>>)]]
            /\ UNCHANGED ymodem
       ELSE /\ ymodem' = [ymodem EXCEPT ![e].errors = errors]
            /\ hist' = [hist EXCEPT ![e] = Soft(@, r)]
            /\ IF Exhausted(errors, ym.max_errors)
               THEN Return(e, "ExhaustedRetries")
               ELSE Goto(e, retry)

\* send_start_frame: the loop that waits for ACK
YAwaitStartAck(e, r) ==
    /\ pc[e] = "y_await_start_ack"
    /\ YAwait(e, r, {ACK}, "y_await_start_c", "y_await_start_ack")

\* send_start_frame: the loop that waits for C
YAwaitStartC(e, r) ==
    /\ pc[e] = "y_await_start_c"
    /\ YAwait(e, r, {CRC}, "y_send_stream", "y_await_start_c")

\* the size of the payload of the packet numbered block_num + 1
YPacketSize(block_num, packets_to_send, last_packet_size) ==
    IF block_num + 1 = packets_to_send /\ last_packet_size <= SohSize
    THEN SohSize ELSE StxSize

\* the packet send_stream builds for block number block_num from the bytes
\* read from the source
YPacket(ym, packet_size, block_num, data) ==
    LET payload == data \o Fill(packet_size - Len(data), ym.pad_byte)
        seq == block_num % 256
    IN WithCrc(<<STX, seq, 255 - seq>> \o payload)

\* send_stream: the top of the loop, up to the write of the packet
YSendStream(e) ==
    LET packet_size == YPacketSize(loc[e].block_num, loc[e].packets_to_send,
                                   loc[e].last_packet_size)
        n == Min(packet_size, Len(stream[e]))
        block_num == loc[e].block_num + 1
    IN
    /\ pc[e] = "y_send_stream"
    /\ UNCHANGED <<xmodem, ymodem, outstream, calls, linked, hist>>
    /\ IF n = 0
       THEN /\ Goto(e, "y_finish_send")
            /\ UNCHANGED <<loc, stream, rx, tx>>
       ELSE /\ stream' = [stream EXCEPT ![e] = Drop(@, n)]
            /\ loc' = [loc EXCEPT ![e].block_num = block_num]
            /\ Dev(e, 0, YPacket(ymodem[e], packet_size, block_num, Take(stream[e], n)))
            /\ Goto(e, "y_await_ack")

\* send_stream: the read of the answer to a packet, to the end of the iteration
YAwaitAck(e, r) ==
    /\ pc[e] = "y_await_ack"
    /\ YAwait(e, r, {ACK}, "y_send_stream", "y_send_stream")

\* finish_send: the write of EOT at the top of the first and second loops
YFinishSend(e) ==
    /\ pc[e] \in {"y_finish_send", "y_finish_send_2"}
    /\ Dev(e, 0, <<EOT>>)
    /\ Goto(e, IF pc[e] = "y_finish_send" THEN "y_await_eot_nak" ELSE "y_await_eot_ack")
    /\ UNCHANGED <<xmodem, ymodem, stream, outstream, calls, linked, loc, hist>>

\* finish_send, first loop: the read of the answer to EOT
YAwaitEotNak(e, r) ==
    /\ pc[e] = "y_await_eot_nak"
    /\ YAwait(e, r, {NAK, ACK}, "y_finish_send_2", "y_finish_send")

\* YAfterEotAck going on to the end frame at once
YAfterEotAckNoWait == "y_send_end_frame"

\* finish_send: where the call goes on after the ACK of the second loop, the
\* third loop that waits for C
YAfterEotAck == "y_await_eot_c"

\* finish_send, second loop: the read of the answer to EOT
YAwaitEotAck(e, r) ==
    /\ pc[e] = "y_await_eot_ack"
    /\ YAwait(e, r, {ACK}, YAfterEotAck, "y_finish_send_2")

\* finish_send, third loop: the wait for C
YAwaitEotC(e, r) ==
    /\ pc[e] = "y_await_eot_c"
    /\ YAwait(e, r, {CRC}, "y_send_end_frame", "y_await_eot_c")

\* the frame send_end_frame writes
YEndFrame == WithCrc(<<SOH, 0, 255>> \o Fill(SohSize, 0))

\* send_end_frame: the write of the frame
YSendEndFrame(e) ==
    /\ pc[e] = "y_send_end_frame"
    /\ Dev(e, 0, YEndFrame)
    /\ Goto(e, "y_await_end_ack")
    /\ UNCHANGED <<xmodem, ymodem, stream, outstream, calls, linked, loc, hist>>

\* send_end_frame: the loop that waits for ACK
YAwaitEndAck(e, r) ==
    /\ pc[e] = "y_await_end_ack"
    /\ YAwait(e, r, {ACK}, "idle", "y_await_end_ack")

\* the steps of a Ymodem::send call of endpoint e
YSendSteps(e) ==
    \/ \E r \in Reads(e) : YStartSend(e, r)
    \/ YSendStartFrame(e)
    \/ \E r \in Reads(e) : YAwaitStartAck(e, r)
    \/ \E r \in Reads(e) : YAwaitStartC(e, r)
    \/ YSendStream(e)
    \/ \E r \in Reads(e) : YAwaitAck(e, r)
    \/ YFinishSend(e)
    \/ \E r \in Reads(e) : YAwaitEotNak(e, r)
    \/ \E r \in Reads(e) : YAwaitEotAck(e, r)
    \/ \E r \in Reads(e) : YAwaitEotC(e, r)
    \/ YSendEndFrame(e)
    \/ \E r \in Reads(e) : YAwaitEndAck(e, r)

\* ------------------------------------------------------ Ymodem::recv

\* polls after which an unlinked peer answers, or which a linked receiver
\* writes into silence
MaxPolls == 2
\* header packets an unlinked peer sends
MaxHeaders == 2

\* the phases of a Ymodem::recv call in which an unlinked peer does as it
\* likes; in the other phases it sends what a sender of the protocol sends
PeerKinds == {"probe", "header", "data"}

\* peers that send a file as a sender of the protocol does: "retry" sends
\* packets of 1024 bytes, meets failures on the way (a packet damaged, a
\* byte of noise, a silence) and sends again what was not accepted; "soh"
\* sends packets of 128 bytes and meets no failure
SenderKinds == {"retry", "soh"}

\* packets of 128 bytes the peer "soh" sends for its longest file
MaxSohPackets == 4

\* the decimal digits of n as bytes
RECURSIVE DecimalDigits(_)
DecimalDigits(n) ==
    IF n < 10 THEN <<48 + n>>
    ELSE DecimalDigits(n \div 10) \o <<48 + (n % 10)>>

\* the file sizes the peer "soh" sends: one byte, and 2..MaxSohPackets
\* whole packets
PeerSohLengths ==
    {DecimalDigits(1)} \cup {DecimalDigits(k * SohSize) : k \in 2..MaxSohPackets}

\* packets of 128 bytes a file of file_size bytes takes
SohPackets(file_size) == (file_size + SohSize - 1) \div SohSize

\* what a peer of SenderKinds sends next to the call of endpoint e: data
\* packets until all are accepted, EOT until two are answered, then the end
\* frame
SenderItem(e) ==
    LET packets == IF loc[e].peer = "soh" THEN SohPackets(loc[e].file_size)
                   ELSE loc[e].num_of_packets
    IN IF hist[e].acked < packets
       THEN (IF loc[e].peer = "soh" THEN SOH ELSE STX)
       ELSE IF Len(hist[e].eots) < 2 THEN EOT
       ELSE SOH

\* whether that peer has sent all its data packets
SenderAtEnd(e) ==
    hist[e].acked >= (IF loc[e].peer = "soh" THEN SohPackets(loc[e].file_size)
                      ELSE loc[e].num_of_packets)

\* Ymodem::recv is called on the engine value of endpoint e: the caller has
\* set the caps (both to me, as the callers of test.rs do) and the flag; the
\* call meets a peer of kind `peer`
YRecvCall(e, me, ignore, peer) ==
    /\ pc[e] = "idle"
    /\ calls' = [calls EXCEPT ![e] = @ + 1]
    /\ ymodem' = [ymodem EXCEPT ![e] =
                    [@ EXCEPT !.max_errors = me, !.max_initial_errors = me,
                              !.ignore_non_digits_on_file_size = ignore,
                              !.errors = 0]]
    /\ loc' = [loc EXCEPT ![e] = [NoLocals EXCEPT !.op = "yrecv", !.peer = peer]]
    /\ outstream' = [outstream EXCEPT ![e] = <<>>]
    /\ hist' = [hist EXCEPT ![e] =
                  [NoHist EXCEPT !.entry = <<XConfig(xmodem[e]), YConfig(ymodem'[e])>>]]
    /\ tx' = [tx EXCEPT ![e] = <<>>]
    /\ stream' = [stream EXCEPT ![e] = <<>>]
    /\ Enter(e, "y_probe")
    /\ UNCHANGED <<xmodem, rx, linked>>

\* recv, first loop: the write of C
YProbe(e) ==
    /\ pc[e] = "y_probe"
    /\ Dev(e, 0, <<CRC>>)
    /\ hist' = [hist EXCEPT ![e].polls = @ + 1]
    /\ Goto(e, "y_probe_read")
    /\ UNCHANGED <<xmodem, ymodem, stream, outstream, calls, linked, loc>>

\* the outcomes of the read of the first loop: after MaxPolls polls the
\* reads that make the loop go round once more without a change are left out
YProbeReads(e) ==
    IF ~linked /\ loc[e].peer # "probe" THEN {SOH}
    ELSE IF hist[e].polls < MaxPolls THEN Reads(e)
    ELSE Reads(e) \cap {SOH, IoFail}

\* recv, first loop: the read of the answer to C
YProbeRead(e, r) ==
    LET ym == ymodem[e]
        initial_errors == ym.initial_errors + 1
    IN
    /\ pc[e] = "y_probe_read"
    /\ Dev(e, 1, <<>>)
    /\ UNCHANGED <<xmodem, stream, outstream, calls, linked>>
    /\ hist' = [hist EXCEPT ![e].silent = @ /\ r = TimedOut]
    /\ IF r = IoFail
       THEN /\ ymodem' = [ymodem EXCEPT ![e].initial_errors = initial_errors]
            /\ UNCHANGED loc
            /\ IF initial_errors > ym.max_initial_errors
               THEN Return(e, "ExhaustedRetries")
               ELSE Goto(e, "y_probe")
       ELSE IF r = SOH
       THEN /\ loc' = [loc EXCEPT ![e].packet_num = 0]
            /\ Goto(e, "y_recv_header")
            /\ UNCHANGED ymodem
       ELSE /\ Goto(e, "y_probe")
            /\ UNCHANGED <<ymodem, loc>>

\* the header packet an unlinked peer sends, after its SOH: sequence,
\* complement (off by dc), name, size, zero fill, CRC (off by dv), and then
\* nothing more
PeerHeader(name, size, seq, dc, dv) ==
    LET fields == name \o <<0>> \o size \o <<0>>
        payload == fields \o Fill(SohSize - Len(fields), 0)
        crc == (calc_crc(payload) + dv) % 65536
    IN <<seq, (255 - seq + dc) % 256>> \o payload \o <<crc \div 256, crc % 256>>
       \o <<TimedOut>>

\* the name and the size of the header an unlinked peer sends most
PeerName == <<102>>
PeerSize == <<49>>

\* file names an unlinked peer sends: none, f, a byte that is not UTF-8, one
\* that fills the payload
PeerNames == {<<>>, PeerName, <<255>>, Fill(SohSize, 102)}

\* file sizes an unlinked peer sends: 0, 1, 1025, a, "1 x", 1x, none, a byte
\* that is not UTF-8
PeerSizes ==
    {<<48>>, PeerSize, <<49, 48, 50, 53>>, <<97>>, <<49, 32, 120>>, <<49, 120>>,
     <<>>, <<255>>}

\* the file sizes among them that are decimal numbers
PeerLengths == {<<48>>, PeerSize, <<49, 48, 50, 53>>}

\* a header packet cut short after k bytes by the read outcome r
PeerHeaderCut(k, r) == Take(PeerHeader(PeerName, PeerSize, 0, 0, 0), k) \o <<r>>

\* the first header packets of an unlinked peer
PeerHeaders ==
    {PeerHeader(name, PeerSize, 0, 0, 0) : name \in PeerNames}
    \cup {PeerHeader(PeerName, size, 0, 0, 0) : size \in PeerSizes}
    \cup {PeerHeader(PeerName, PeerSize, seq, dc, dv) :
             seq \in {0, 1}, dc \in {0, 1}, dv \in {0, 1}}
    \cup {PeerHeaderCut(k, r) :
             k \in {0, 1, 2, 3, 4, 5, SohSize + 2, SohSize + 3}, r \in {TimedOut, IoFail}}

\* the header packet of a peer that has followed the receiver: its CRC is
\* the one of all the receiver holds in its buffers after reading it
PeerHeaderFollowing(nb, sb, pb) ==
    LET name_buf == nb \o PeerName \o <<0>>
        size_buf == sb \o PeerSize \o <<0>>
        pad == SohSize - Len(name_buf) - Len(size_buf)
        crc == calc_crc(name_buf \o size_buf \o pb \o Fill(pad, 0))
    IN <<0, 255>> \o PeerName \o <<0>> \o PeerSize \o <<0>> \o Fill(pad, 0)
       \o <<crc \div 256, crc % 256, TimedOut>>

\* the header packets an unlinked peer sends after a NAK: the first one
\* again, with and without its SOH, the one that follows the receiver, and
\* a cut one
PeerHeadersAgain(nb, sb, pb) ==
    {PeerHeader(PeerName, PeerSize, 0, 0, 0),
     <<SOH>> \o PeerHeader(PeerName, PeerSize, 0, 0, 0),
     PeerHeaderFollowing(nb, sb, pb),
     PeerHeaderCut(1, TimedOut)}

\* the outcomes of the reads of a header packet (none when the call is not
\* at those reads)
YHeaders(e) ==
    IF pc[e] # "y_recv_header" THEN {}
    ELSE IF linked
    THEN IF HeaderUsed(e) <= Len(rx[e]) \/ Quiet(Peer(e))
         THEN {HeaderItems(e)} ELSE {}
    ELSE IF loc[e].peer = "probe" THEN {PeerHeader(PeerName, PeerSize, 0, 0, 0)}
    ELSE IF loc[e].peer \in {"data", "retry"}
    THEN {PeerHeader(PeerName, size, 0, 0, 0) : size \in PeerLengths}
    ELSE IF loc[e].peer = "soh"
    THEN {PeerHeader(PeerName, size, 0, 0, 0) : size \in PeerSohLengths}
    ELSE IF ymodem[e].errors = 0 THEN PeerHeaders
    ELSE IF ymodem[e].errors < MaxHeaders
    THEN PeerHeadersAgain(loc[e].file_name_buf, loc[e].file_size_buf,
                          loc[e].padding_buf)
    ELSE {<<TimedOut>>, <<IoFail>>}

\* ceil(file_size_num as f32 / 1024.0) as u32; the conversion to f32 is
\* exact below 2^24
NumOfPackets(file_size_num) == (file_size_num + StxSize - 1) \div StxSize

\* recv, second loop: the reads of the header packet, from its sequence byte
\* to its CRC, and the answer, to the end of the iteration; on ACK, up to the
\* start of the third loop
YRecvHeader(e, it) ==
    LET ym == ymodem[e]
        scan == YHeaderScan(it, loc[e].file_name_buf, loc[e].file_size_buf)
        used == scan[2]
        i == StopAt(it, 3)
        j == StopAt(it, i + 1)
        file_name_buf == loc[e].file_name_buf \o SubSeq(it, 3, i)
        file_size_buf == loc[e].file_size_buf \o SubSeq(it, i + 1, j)
        pad == SohSize - Len(file_name_buf) - Len(file_size_buf)
        padding_buf == loc[e].padding_buf \o SubSeq(it, j + 1, j + pad)
        recv_checksum == it[j + pad + 1] * 256 + it[j + pad + 2]
        success == calc_crc(file_name_buf \o file_size_buf \o padding_buf) = recv_checksum
        cancel_packet == CancelPacket(loc[e].packet_num, it[1], it[2])
        file_name == Take(file_name_buf, Len(file_name_buf) - 1)
        named == used > 2 /\ IsByte(it[i]) /\ (scan[1] # "panic") /\ used >= i
        file_size_num == FileSizeNum(file_size_buf, ym.ignore_non_digits_on_file_size)
        after == [loc[e] EXCEPT !.file_name = IF named THEN file_name ELSE @]
    IN
    /\ pc[e] = "y_recv_header"
    /\ UNCHANGED <<xmodem, stream, outstream, calls, linked>>
    /\ IF scan[1] = "io"
       THEN /\ Return(e, "Io")
            /\ Dev(e, used, <<>>)
            /\ hist' = [hist EXCEPT ![e] = [Failed(@, it[used], TRUE) EXCEPT !.header = it]]
            /\ loc' = [loc EXCEPT ![e] = after]
            /\ UNCHANGED ymodem
       ELSE IF scan[1] = "panic"
       THEN /\ Return(e, "panic")
            /\ Dev(e, used, <<>>)
            /\ hist' = [hist EXCEPT ![e].silent = FALSE, ![e].header = it]
            /\ UNCHANGED <<ymodem, loc>>
       ELSE IF scan[1] = "overflow"
       THEN /\ \E out \in {"panic", "Io"} :
                  /\ Return(e, out)
                  /\ hist' = [hist EXCEPT ![e] =
                                IF out = "Io"
                                THEN [Failed(@, it[used], TRUE) EXCEPT !.header = it]
                                ELSE [@ EXCEPT !.silent = FALSE, !.header = it]]
            /\ Dev(e, used, <<>>)
            /\ loc' = [loc EXCEPT ![e] = after]
            /\ UNCHANGED ymodem
       ELSE IF cancel_packet
       THEN /\ Return(e, "Canceled")
            /\ Dev(e, used, <<CAN, CAN>>)
            /\ hist' = [hist EXCEPT ![e].silent = FALSE, ![e].header = it]
            /\ loc' = [loc EXCEPT ![e] = after]
            /\ UNCHANGED ymodem
       ELSE IF ~success
       THEN /\ Dev(e, used, <<NAK>>)
            /\ ymodem' = [ymodem EXCEPT ![e].errors = @ + 1]
            /\ hist' = [hist EXCEPT ![e].silent = FALSE, ![e].header = it]
            /\ loc' = [loc EXCEPT ![e] =
                         [after EXCEPT !.file_name_buf = file_name_buf,
                                       !.file_size_buf = file_size_buf,
                                       !.padding_buf = padding_buf]]
            /\ Goto(e, "y_recv_header")
       ELSE /\ Dev(e, used, <<ACK, CRC>>)
            /\ hist' = [hist EXCEPT ![e].silent = FALSE, ![e].header = it]
            /\ UNCHANGED ymodem
            /\ IF file_size_num < 0
               THEN /\ Return(e, "panic")
                    /\ loc' = [loc EXCEPT ![e] = [after EXCEPT !.packet_num = 1]]
               ELSE /\ Goto(e, "y_recv_data")
                    /\ loc' = [loc EXCEPT ![e] =
                                 [after EXCEPT !.packet_num = 1,
                                               !.file_name_buf = file_name_buf,
                                               !.file_size_buf = file_size_buf,
                                               !.padding_buf = padding_buf,
                                               !.file_size = file_size_num,
                                               !.num_of_packets = NumOfPackets(file_size_num),
                                               !.range = 0,
                                               !.received_first_eot = FALSE]]

\* YDelivered writing all of the buffer
YDeliveredAll(file_buf, file_size_num) == file_buf

\* what recv writes to the sink at its end
YDelivered(file_buf, file_size_num) == Take(file_buf, file_size_num)

\* recv, third loop: the end of an iteration that leaves errors failures
\* counted and the locals l, and the end of the call after the last one
YIterate(e, errors, l) ==
    /\ ymodem' = [ymodem EXCEPT ![e].errors = errors]
    /\ IF errors >= ymodem[e].max_errors
       THEN /\ Return(e, "ExhaustedRetries")
            /\ loc' = [loc EXCEPT ![e] = l]
            /\ UNCHANGED outstream
       ELSE IF l.range + 1 < l.num_of_packets + 3
       THEN /\ Goto(e, "y_recv_data")
            /\ loc' = [loc EXCEPT ![e] = [l EXCEPT !.range = @ + 1]]
            /\ UNCHANGED outstream
       ELSE IF Len(l.file_buf) < l.file_size
       THEN /\ Return(e, "panic")
            /\ loc' = [loc EXCEPT ![e] = l]
            /\ UNCHANGED outstream
       ELSE /\ Return(e, "Ok")
            /\ loc' = [loc EXCEPT ![e] = l]
            /\ outstream' = [outstream EXCEPT ![e] = @ \o YDelivered(l.file_buf, l.file_size)]

\* what the third loop of recv matches on: the outcome of a read (none when
\* the call is not at that read)
YRecvItems(e) ==
    IF pc[e] # "y_recv_data" THEN {}
    ELSE IF linked THEN Reads(e)
    ELSE IF loc[e].peer = "retry" THEN {SenderItem(e), 0, TimedOut}
    ELSE IF loc[e].peer = "soh" THEN {SenderItem(e)}
    ELSE IF loc[e].peer # "data"
    THEN {IF loc[e].range < loc[e].num_of_packets THEN STX
          ELSE IF loc[e].range < loc[e].num_of_packets + 2 THEN EOT
          ELSE SOH}
    ELSE IF hist[e].acked < MaxPackets THEN PeerSends ELSE PeerSends \ {SOH, STX}

\* YEotReply answering every EOT alike
YEotReplyAlwaysAck(received_first_eot) == <<ACK, CRC>>

\* what recv writes when it reads EOT
YEotReply(received_first_eot) ==
    IF received_first_eot THEN <<ACK, CRC>> ELSE <<NAK>>

\* recv, third loop: the match on the next byte, up to the read of a packet
\* or the end of the iteration
YRecvData(e, r) ==
    LET ym == ymodem[e]
        l == loc[e]
    IN
    /\ pc[e] = "y_recv_data"
    /\ UNCHANGED <<xmodem, stream, calls, linked>>
    /\ IF r = IoFail
       THEN /\ Return(e, "Io")
            /\ Dev(e, 1, <<>>)
            /\ hist' = [hist EXCEPT ![e] = Failed(@, r, FALSE)]
            /\ UNCHANGED <<ymodem, loc, outstream>>
       ELSE IF r \in {SOH, STX}
       THEN /\ loc' = [loc EXCEPT ![e].packet_size = IF r = SOH THEN SohSize ELSE StxSize]
            /\ Dev(e, 1, <<>>)
            /\ Goto(e, "y_recv_packet")
            /\ UNCHANGED <<ymodem, outstream, hist>>
       ELSE IF r = EOT
       THEN /\ Dev(e, 1, YEotReply(l.received_first_eot))
            /\ hist' = [hist EXCEPT ![e].eots =
                          Append(@, <<Len(tx[e]), Len(tx'[e])>>)]
            /\ YIterate(e, ym.errors,
                        [l EXCEPT !.packet_num = (@ + 1) % 256,
                                  !.received_first_eot = TRUE])
       ELSE /\ Dev(e, 1, <<>>)
            /\ hist' = [hist EXCEPT ![e].soft = @ + 1]
            /\ YIterate(e, IF r = TimedOut THEN ym.errors + 1 ELSE ym.errors, l)

\* the sequence number recv expects in iteration `range`
YExpected(range, num_of_packets, packet_num) ==
    IF range = num_of_packets + 2 THEN 0 ELSE packet_num

\* the outcomes of reading the rest of a data packet (none when the call is
\* not at those reads)
YBodies(e) ==
    IF pc[e] # "y_recv_packet" THEN {}
    ELSE IF linked
    THEN IF Len(rx[e]) >= BodyNeed(e) THEN {Take(rx[e], BodyNeed(e))}
         ELSE IF Quiet(Peer(e)) THEN {rx[e] \o <<TimedOut>>} ELSE {}
    ELSE IF loc[e].peer \in SenderKinds
    THEN {PeerBody(loc[e].packet_size, "CRC16",
                   IF SenderAtEnd(e) THEN 0 ELSE loc[e].packet_num, 0, dv) :
             dv \in IF loc[e].peer = "retry" THEN {0, 1} ELSE {0}}
    ELSE IF loc[e].peer # "data"
    THEN {PeerBody(loc[e].packet_size, "CRC16",
                   IF loc[e].packet_size = SohSize THEN 0 ELSE loc[e].packet_num, 0, 0)}
    ELSE PeerBodiesAt(IF loc[e].packet_size = SohSize
                      THEN PeerBodiesSohCrc ELSE PeerBodiesStxCrc,
                      YExpected(loc[e].range, loc[e].num_of_packets, loc[e].packet_num))

\* recv, third loop: the reads of the rest of a packet, from the sequence
\* byte to the CRC, and the answer, to the end of the iteration
YRecvPacket(e, body) ==
    LET ym == ymodem[e]
        l == loc[e]
        size == l.packet_size
        need == BodyNeed(e)
        failed == {k \in 1..Min(need, Len(body)) : ~IsByte(body[k])}
        at == CHOOSE k \in failed : \A m \in failed : k <= m
        pnum == body[1]
        pnum_1c == body[2]
        data == SubSeq(body, 3, size + 2)
        recv_checksum == body[size + 3] * 256 + body[size + 4]
        expected == YExpected(l.range, l.num_of_packets, l.packet_num)
        cancel_packet == CancelPacket(expected, pnum, pnum_1c)
        success == calc_crc(data) = recv_checksum
        pkt == [pnum |-> pnum, pnum_1c |-> pnum_1c, expected |-> expected,
                verified |-> success, txlen |-> Len(tx[e]),
                sinklen |-> Len(l.file_buf)]
    IN
    /\ pc[e] = "y_recv_packet"
    /\ UNCHANGED <<xmodem, stream, calls, linked>>
    /\ IF failed # {}
       THEN /\ Return(e, "Io")
            /\ Dev(e, at, <<>>)
            /\ hist' = [hist EXCEPT ![e] = Failed(@, body[at], TRUE)]
            /\ UNCHANGED <<ymodem, loc, outstream>>
       ELSE IF cancel_packet
       THEN /\ Return(e, "Canceled")
            /\ Dev(e, need, <<CAN, CAN>>)
            /\ hist' = [hist EXCEPT ![e].pkt = pkt]
            /\ UNCHANGED <<ymodem, loc, outstream>>
       ELSE IF success
       THEN /\ Dev(e, need, <<ACK>>)
            /\ hist' = [hist EXCEPT ![e].acked = @ + 1, ![e].pkt = pkt,
                                    ![e].accepted = @ \o data]
            /\ YIterate(e, ym.errors,
                        [l EXCEPT !.packet_num = (@ + 1) % 256,
                                  !.file_buf = @ \o data])
       ELSE /\ Dev(e, need, <<NAK>>)
            /\ hist' = [hist EXCEPT ![e].pkt = pkt, ![e].soft = @ + 1]
            /\ YIterate(e, ym.errors + 1, l)

\* the steps of a Ymodem::recv call of endpoint e
YRecvSteps(e) ==
    \/ YProbe(e)
    \/ \E r \in YProbeReads(e) : YProbeRead(e, r)
    \/ \E it \in YHeaders(e) : YRecvHeader(e, it)
    \/ \E r \in YRecvItems(e) : YRecvData(e, r)
    \/ \E body \in YBodies(e) : YRecvPacket(e, body)

\* ---------------------------------------------------------- initial state

\* the engine values after construction and the caller's settings
TypeInit(lnk) ==
    /\ linked = lnk
    /\ ymodem = [e \in Endpoints |-> YmodemNew]
    /\ pc = [e \in Endpoints |-> "idle"]
    /\ loc = [e \in Endpoints |-> NoLocals]
    /\ rx = [e \in Endpoints |-> <<>>]
    /\ tx = [e \in Endpoints |-> <<>>]
    /\ stream = [e \in Endpoints |-> <<>>]
    /\ outstream = [e \in Endpoints |-> <<>>]
    /\ ret = [e \in Endpoints |-> "none"]
    /\ calls = [e \in Endpoints |-> 0]
    /\ hist = [e \in Endpoints |-> NoHist]

\* ------------------------------------------- XMODEM: sender against receiver

\* endpoint a sends, endpoint b receives, each reads what the other writes
InitXRT ==
    /\ TypeInit(TRUE)
    /\ xmodem = [e \in Endpoints |-> XmodemNew]

NextXRT ==
    \/ \E me \in 1..MaxErrors, bl \in {SohSize, StxSize} :
          \E n \in SrcLens(bl) : calls["a"] = 0 /\ XSendCall("a", me, bl, n)
    \/ \E me \in 1..MaxErrors, mi \in 0..MaxInitialErrors, c \in {"Standard", "CRC16"} :
          calls["b"] = 0 /\ XRecvCall("b", me, mi, c)
    \/ \E r \in Reads("a") : XStartSend("a", r)
    \/ XSendStream("a")
    \/ \E r \in Reads("a") : XAwaitAck("a", r)
    \/ XFinishSend("a")
    \/ \E r \in Reads("a") : XAwaitEotAck("a", r)
    \/ XProbe("b")
    \/ \E r \in Reads("b") : XProbeRead("b", r)
    \/ \E r \in XRecvItems("b") : XRecvLoop("b", r)
    \/ \E body \in XBodies("b") : XRecvPacket("b", body)

SpecXRT == InitXRT /\ [][NextXRT]_vars

\* endpoint e cannot take a step: it has returned, or it waits in a read of
\* dev that neither returns a byte nor times out
Blocked(e) ==
    \/ pc[e] = "idle" /\ calls[e] > 0
    \/ /\ pc[e] \in ByteReadLabels \ {"x_recv_loop", "y_probe_read"}
       /\ Reads(e) = {}
    \/ pc[e] = "x_recv_loop" /\ XRecvItems(e) = {}
    \/ pc[e] = "x_recv_packet" /\ XBodies(e) = {}
    \/ pc[e] = "y_probe_read" /\ YProbeReads(e) = {}
    \/ pc[e] = "y_recv_header" /\ YHeaders(e) = {}
    \/ pc[e] = "y_recv_packet" /\ YBodies(e) = {}

\* both calls of a linked pair have returned
BothReturned ==
    \A e \in Endpoints : calls[e] = 1 /\ pc[e] = "idle"

\* src followed by pad bytes up to the next multiple of bl
Padded(src, bl, pad) == src \o Fill((bl - (Len(src) % bl)) % bl, pad)

\* C1: XMODEM round trip.  Xmodem::send and Xmodem::recv run against each
\* other over a reliable in-order channel, for every source length, block
\* length and checksum mode tried: the pair never gets stuck, and when both
\* calls have returned both returned Ok and the sink holds the source
\* followed by pad bytes up to the next multiple of the block length.
C1_XmodemRoundTrip ==
    IF BothReturned
    THEN /\ ret["a"] = "Ok"
         /\ ret["b"] = "Ok"
         /\ outstream["b"] =
                Padded(hist["a"].source, xmodem["a"].block_length, xmodem["a"].pad_byte)
    ELSE \E e \in Endpoints : ~Blocked(e)

\* a two-packet CRC transfer whose last packet is padded has completed
C1_Witness ==
    /\ BothReturned
    /\ ret["a"] = "Ok" /\ ret["b"] = "Ok"
    /\ xmodem["b"].checksum_mode = "CRC16"
    /\ Len(hist["a"].source) = SohSize + 1
    /\ Len(outstream["b"]) = 2 * SohSize
    /\ outstream["b"][SohSize + 2] = xmodem["a"].pad_byte

\* the round trip of C1 for the sources that hold at least one byte
XmodemRoundTripNonEmpty ==
    hist["a"].source # <<>> => C1_XmodemRoundTrip

\* ------------------------------------------- YMODEM: sender against receiver

\* endpoint a sends, endpoint b receives, each reads what the other writes;
\* file_size_in_bytes is the length of the source
NextYRT ==
    \/ \E me \in 1..MaxErrors, name \in FileNames, n \in SrcLens(StxSize) :
          calls["a"] = 0 /\ YSendCall("a", me, name, n, n)
    \/ \E me \in 1..MaxErrors, ignore \in BOOLEAN :
          calls["b"] = 0 /\ YRecvCall("b", me, ignore, "data")
    \/ YSendSteps("a")
    \/ YRecvSteps("b")

SpecYRT == InitXRT /\ [][NextYRT]_vars

\* C2: YMODEM round trip.  Ymodem::send and Ymodem::recv run against each
\* other over a reliable in-order channel, file_size being the length of the
\* source, for every file name and source length tried: the pair never gets
\* stuck, and when both calls have returned both returned Ok, the receiver
\* reports the file name and the file size of the sender, and the sink
\* holds the source.
C2_YmodemRoundTrip ==
    IF BothReturned
    THEN /\ ret["a"] = "Ok"
         /\ ret["b"] = "Ok"
         /\ loc["b"].file_name = loc["a"].file_name
         /\ loc["b"].file_size = Len(hist["a"].source)
         /\ outstream["b"] = hist["a"].source
    ELSE \E e \in Endpoints : ~Blocked(e)

\* the round trip of C2 for the empty source
YmodemRoundTripEmpty ==
    (calls["a"] = 1 /\ hist["a"].source = <<>>) => C2_YmodemRoundTrip

\* both calls of a YMODEM round trip returned Ok
YmodemRoundTripOk ==
    BothReturned /\ loc["a"].op = "ysend" /\ ret["a"] = "Ok" /\ ret["b"] = "Ok"

\* --------------------------------------- XMODEM: one engine, any peer

\* endpoint a runs Xmodem::send and Xmodem::recv calls on one engine value;
\* the peer decides the outcome of every read of dev
InitX ==
    /\ TypeInit(FALSE)
    /\ xmodem = [e \in Endpoints |-> XmodemNew]

\* a single Xmodem::send call on a new engine value
NextXSend ==
    \/ \E me \in 0..MaxErrors, bl \in {SohSize, StxSize} :
          \E n \in SrcLens(bl) : calls["a"] = 0 /\ XSendCall("a", me, bl, n)
    \/ \E r \in Reads("a") : XStartSend("a", r)
    \/ XSendStream("a")
    \/ \E r \in Reads("a") : XAwaitAck("a", r)
    \/ XFinishSend("a")
    \/ \E r \in Reads("a") : XAwaitEotAck("a", r)

SpecXSend == InitX /\ [][NextXSend]_vars

\* a single Xmodem::recv call on a new engine value
NextXRecv ==
    \/ \E me \in 0..MaxErrors, mi \in 0..MaxInitialErrors, c \in {"Standard", "CRC16"} :
          calls["a"] = 0 /\ XRecvCall("a", me, mi, c)
    \/ XProbe("a")
    \/ \E r \in Reads("a") : XProbeRead("a", r)
    \/ \E r \in XRecvItems("a") : XRecvLoop("a", r)
    \/ \E body \in XBodies("a") : XRecvPacket("a", body)

SpecXRecv == InitX /\ [][NextXRecv]_vars

\* the same with up to MaxCalls calls, one after the other, on the engine value
NextXCalls ==
    \/ \E me \in 0..MaxErrors, bl \in {SohSize, StxSize} :
          \E n \in SrcLens(bl) : calls["a"] < MaxCalls /\ XSendCall("a", me, bl, n)
    \/ \E me \in 0..MaxErrors, mi \in 0..MaxInitialErrors, c \in {"Standard", "CRC16"} :
          calls["a"] < MaxCalls /\ XRecvCall("a", me, mi, c)
    \/ \E r \in Reads("a") : XStartSend("a", r)
    \/ XSendStream("a")
    \/ \E r \in Reads("a") : XAwaitAck("a", r)
    \/ XFinishSend("a")
    \/ \E r \in Reads("a") : XAwaitEotAck("a", r)
    \/ XProbe("a")
    \/ \E r \in Reads("a") : XProbeRead("a", r)
    \/ \E r \in XRecvItems("a") : XRecvLoop("a", r)
    \/ \E body \in XBodies("a") : XRecvPacket("a", body)

SpecXCalls == InitX /\ [][NextXCalls]_vars

\* ----------------------------------------------- senders against any peer

\* a single call of Xmodem::send or of Ymodem::send on a new engine value
NextSend ==
    \/ \E me \in 0..MaxErrors, bl \in {SohSize, StxSize} :
          \E n \in SrcLens(bl) : calls["a"] = 0 /\ XSendCall("a", me, bl, n)
    \/ \E me \in 0..MaxErrors, name \in FileNames, n \in SrcLens(StxSize) :
          calls["a"] = 0 /\ YSendCall("a", me, name, n, n)
    \/ \E r \in Reads("a") : XStartSend("a", r)
    \/ XSendStream("a")
    \/ \E r \in Reads("a") : XAwaitAck("a", r)
    \/ XFinishSend("a")
    \/ \E r \in Reads("a") : XAwaitEotAck("a", r)
    \/ YSendSteps("a")

SpecSend == InitX /\ [][NextSend]_vars

\* ------------------------------------------------------ claims: XMODEM

\* number of bytes of a data packet of the sending call of endpoint e
XPacketLen(e) ==
    3 + xmodem[e].block_length + (IF xmodem[e].checksum_mode = "Standard" THEN 1 ELSE 2)

\* data packet number k written by the sending call of endpoint e
XSent(e, k) == SubSeq(tx[e], (k - 1) * XPacketLen(e) + 1, k * XPacketLen(e))

\* C3: in Xmodem::send, when the answer to a data packet is not ACK and the
\* error cap is not reached, the next packet written is the rejected one
\* again (same sequence number, same payload); the sequence number advances
\* only after an ACK.
C3_ResendsRejectedPacket ==
    (/\ pc["a"] = "x_await_ack"
     /\ loc["a"].block_num >= 2
     /\ hist["a"].last # ACK)
    => XSent("a", loc["a"].block_num) = XSent("a", loc["a"].block_num - 1)

\* C4: whenever Xmodem::send returns Ok, every block read from the source was
\* answered with ACK by the peer.
C4_SuccessMeansAllAcked ==
    (loc["a"].op = "xsend" /\ ret["a"] = "Ok")
    => hist["a"].acked = loc["a"].block_num

\* C6: a read timeout, wherever it occurs in a call, is a soft error: no call
\* returns an I/O error because a read timed out.
C6_TimeoutIsSoft ==
    ret["a"] = "Io" => hist["a"].cause # TimedOut

\* C9: in Xmodem::recv, a packet whose sequence byte is not the expected one,
\* or whose complement byte is not 255 minus the sequence byte, makes the
\* call write CAN twice and return Canceled, whether or not its verification
\* matches; nothing else is written to dev for it and nothing to the sink.
C9_OutOfSequenceCancels ==
    LET p == hist["a"].pkt IN
    (/\ loc["a"].op = "xrecv"
     /\ p.pnum >= 0
     /\ (p.pnum # p.expected \/ p.pnum_1c # 255 - p.pnum))
    => /\ pc["a"] = "idle"
       /\ ret["a"] = "Canceled"
       /\ tx["a"] = Take(tx["a"], p.txlen) \o <<CAN, CAN>>
       /\ Len(outstream["a"]) = p.sinklen

\* a second packet with the expected number, a wrong complement and a
\* matching verification was cancelled
C9_Witness ==
    LET p == hist["a"].pkt IN
    /\ loc["a"].op = "xrecv"
    /\ ret["a"] = "Canceled"
    /\ p.expected = 2 /\ p.pnum = 2 /\ p.pnum_1c # 253
    /\ p.verified
    /\ hist["a"].acked = 1

\* C10: in Xmodem::recv on a new engine value, when every read times out the
\* call writes max_initial_errors + 1 poll bytes and nothing else, returns
\* ExhaustedRetries, and writes nothing to the sink.
C10_SilentPeerProbe ==
    (loc["a"].op = "xrecv" /\ hist["a"].silent /\ calls["a"] = 1)
    => /\ outstream["a"] = <<>>
       /\ Len(tx["a"]) <= xmodem["a"].max_initial_errors + 1
       /\ pc["a"] = "idle" =>
            /\ ret["a"] = "ExhaustedRetries"
            /\ tx["a"] = Fill(xmodem["a"].max_initial_errors + 1,
                              XPoll(loc["a"].checksum))

\* a probe with max_initial_errors = 1 gave up after two polls into silence
C10_Witness ==
    /\ loc["a"].op = "xrecv" /\ hist["a"].silent
    /\ pc["a"] = "idle" /\ ret["a"] = "ExhaustedRetries"
    /\ xmodem["a"].max_initial_errors = 1
    /\ tx["a"] = <<CRC, CRC>>

\* endpoint e has entered a call of the XMODEM engine and has not read or
\* written dev yet
XEntered(e) ==
    \/ pc[e] = "x_probe" /\ tx[e] = <<>>
    \/ pc[e] = "x_start_send" /\ hist[e].soft = 0 /\ hist[e].last = ACK

\* C7: at the start of every top-level call on an engine value both failure
\* counters, errors and initial_errors, are zero, so that failures counted
\* by an earlier call do not change the outcome of a later one.
C7_CountersResetPerCall ==
    XEntered("a") => xmodem["a"].errors = 0 /\ xmodem["a"].initial_errors = 0

\* --------------------------------------- YMODEM: receiver against any peer

\* a single Ymodem::recv call on a new engine value
NextYRecv ==
    \/ \E me \in 0..MaxErrors, ignore \in BOOLEAN, peer \in PeerKinds :
          /\ calls["a"] = 0
          /\ ignore => peer = "header"
          /\ YRecvCall("a", me, ignore, peer)
    \/ YRecvSteps("a")

SpecYRecv == InitX /\ [][NextYRecv]_vars

\* the cap on the failures of the sending call of endpoint e
SendCap(e) ==
    IF loc[e].op = "xsend" THEN xmodem[e].max_errors ELSE ymodem[e].max_errors

\* the failures the engine value has counted in the sending call of endpoint e
SendErrors(e) ==
    IF loc[e].op = "xsend" THEN xmodem[e].errors ELSE ymodem[e].errors

\* C5: with max_errors >= 1, an Xmodem::send or Ymodem::send call whose peer
\* answers every read with NAK returns ExhaustedRetries, and does so when
\* exactly max_errors failures have been counted in the call, the NAK that
\* completes the XMODEM handshake not being one; until then it goes on.
C5_AllNakExhausts ==
    (/\ loc["a"].op \in {"xsend", "ysend"}
     /\ hist["a"].onlynak
     /\ SendCap("a") >= 1)
    => IF pc["a"] = "idle"
       THEN /\ ret["a"] = "ExhaustedRetries"
            /\ hist["a"].soft = SendCap("a")
            /\ SendErrors("a") = SendCap("a")
       ELSE /\ hist["a"].soft < SendCap("a")
            /\ SendErrors("a") = hist["a"].soft

\* an XMODEM sender with max_errors = 2 and a one-block source gave up after
\* NAK for the handshake, NAK for the packet and NAK for EOT
C5_Witness ==
    /\ loc["a"].op = "xsend"
    /\ hist["a"].onlynak
    /\ ret["a"] = "ExhaustedRetries"
    /\ xmodem["a"].max_errors = 2
    /\ hist["a"].soft = 2
    /\ loc["a"].block_num = 1
    /\ tx["a"][Len(tx["a"])] = EOT

\* a YMODEM sender with max_errors = 2 gave up after two NAKs
YAllNakExhausted ==
    /\ loc["a"].op = "ysend"
    /\ hist["a"].onlynak
    /\ ret["a"] = "ExhaustedRetries"
    /\ ymodem["a"].max_errors = 2
    /\ hist["a"].soft = 2

\* C8: whenever Ymodem::recv returns Ok, the sink has received exactly
\* file_size bytes, and they are the first file_size bytes of the payloads,
\* one after the other, of the packets the call answered with ACK after the
\* header packet; what those hold beyond file_size is not delivered.
C8_DeliversFileSizeBytes ==
    (loc["a"].op = "yrecv" /\ ret["a"] = "Ok")
    => /\ Len(outstream["a"]) = loc["a"].file_size
       /\ outstream["a"] = Take(hist["a"].accepted, loc["a"].file_size)

\* a file of 1025 bytes was delivered out of two packets of 1024 bytes
C8_Witness ==
    /\ loc["a"].op = "yrecv"
    /\ ret["a"] = "Ok"
    /\ loc["a"].file_size = 1025
    /\ Len(hist["a"].accepted) = 2 * StxSize
    /\ Len(outstream["a"]) = 1025
    /\ outstream["a"][1025] = PeerFill(2)

\* Ymodem::recv returned Ok after a header packet it had answered with NAK
YOkAfterHeaderNak ==
    /\ loc["a"].op = "yrecv" /\ ret["a"] = "Ok" /\ ymodem["a"].errors > 0
    /\ Len(loc["a"].file_name_buf) > 2

\* Ymodem::recv panicked at the end of its third loop
YShortBufferPanic ==
    /\ loc["a"].op = "yrecv" /\ ret["a"] = "panic" /\ loc["a"].range > 0

\* ------------------------------------------------- claims: a silent peer

\* the reads a call may see time out, one after the other, before it has to
\* return: as many as its cap lets it count, and one more in the first loop
\* of a receiver, which gives up only past its cap
SilentReads(e) ==
    IF loc[e].op = "xsend" THEN (IF xmodem[e].max_errors = 0 THEN 1 ELSE xmodem[e].max_errors)
    ELSE IF loc[e].op = "ysend" THEN (IF ymodem[e].max_errors = 0 THEN 1 ELSE ymodem[e].max_errors)
    ELSE IF loc[e].op = "xrecv" THEN xmodem[e].max_initial_errors + 1
    ELSE ymodem[e].max_initial_errors + 1

\* the reads of the first call of endpoint e that have timed out so far, no
\* read of it having returned anything else
SilentSoFar(e) ==
    IF loc[e].op \in {"xsend", "ysend"} THEN hist[e].soft
    ELSE hist[e].polls - (IF pc[e] \in {"x_probe_read", "y_probe_read"} THEN 1 ELSE 0)

\* C11: each of the four operations returns when the peer is silent: a call
\* all of whose reads time out does not go on reading once it has met as
\* many timeouts as its cap lets it count, it has returned by then.
C11_SilentPeerReturns ==
    (/\ loc["a"].op # "none"
     /\ calls["a"] = 1
     /\ hist["a"].silent)
    => /\ SilentSoFar("a") <= SilentReads("a")
       /\ SilentSoFar("a") = SilentReads("a") => pc["a"] = "idle"

\* ------------------------------------------------- claims: the counters

\* the engine value the call of endpoint e runs on
Engine(e) == IF loc[e].op \in {"xsend", "xrecv"} THEN xmodem[e] ELSE ymodem[e]

\* C12: no call goes on waiting or retrying with a counter that a failure
\* has brought to its cap: once a failure has made errors >= max_errors, or
\* initial_errors >= max_initial_errors, the call has returned.
C12_ReturnsAtCap ==
    (/\ loc["a"].op # "none"
     /\ calls["a"] = 1
     /\ Running("a"))
    => /\ Engine("a").errors > 0 => Engine("a").errors < Engine("a").max_errors
       /\ Engine("a").initial_errors > 0
            => Engine("a").initial_errors < Engine("a").max_initial_errors

\* the step of endpoint e is a read in the first loop of a receiver that
\* returned neither the awaited header byte nor, in Xmodem::recv, an I/O error
ProbeFailed(e) ==
    \/ /\ pc[e] = "x_probe_read"
       /\ pc'[e] \in {"x_probe", "idle"}
       /\ ret'[e] # "Io"
    \/ /\ pc[e] = "y_probe_read"
       /\ pc'[e] \in {"y_probe", "idle"}

\* the step of endpoint e is a failure in the main phase of a receiver: a
\* read that timed out or returned a byte that is neither a header byte nor
\* EOT, or a packet answered with NAK
RecvFailed(e) ==
    \/ /\ pc[e] = "x_recv_loop"
       /\ loc[e].handled_first_packet
       /\ pc'[e] \in {"x_recv_loop", "idle"}
       /\ ret'[e] \notin {"Ok", "Io"}
    \/ /\ pc[e] = "y_recv_data"
       /\ pc'[e] \in {"y_recv_data", "idle"}
       /\ ret'[e] # "Io"
       /\ tx'[e] = tx[e]
    \/ /\ pc[e] \in BodyReadLabels
       /\ tx'[e] = tx[e] \o <<NAK>>

\* the step of endpoint e is a read by a sender that returned something
\* other than the byte awaited
SendFailed(e) ==
    /\ loc[e].op \in {"xsend", "ysend"}
    /\ hist'[e].soft = hist[e].soft + 1

\* C13: in every wait each timeout, each unexpected byte and each
\* verification failure increments the counter of its phase by exactly one
\* (so that a peer that keeps sending unexpected bytes exhausts the cap).
C13_FailureCountsOnce ==
    [][/\ ProbeFailed("a")
          => Engine("a")'.initial_errors = Engine("a").initial_errors + 1
       /\ (RecvFailed("a") \/ SendFailed("a"))
          => Engine("a")'.errors = Engine("a").errors + 1]_vars

\* ------------------------------------------------- claims: the handshakes

\* the verification bytes of a payload in the mode the poll byte selects
XVerification(poll, payload) ==
    LET crc == calc_crc(payload)
    IN IF poll = NAK THEN <<calc_checksum(payload)>> ELSE <<crc \div 256, crc % 256>>

\* block number k of the source of endpoint e, padded to a whole block
XBlock(e, k) ==
    LET bl == xmodem[e].block_length
        data == SubSeq(hist[e].source, (k - 1) * bl + 1, Min(k * bl, Len(hist[e].source)))
    IN data \o Fill(bl - Len(data), xmodem[e].pad_byte)

\* C14: in Xmodem::send the first poll byte read in the handshake fixes the
\* checksum mode of the call, NAK the additive checksum and C the CRC-16:
\* every data packet written after it is header, sequence, complement,
\* padded payload and then exactly 1 byte (the sum of the payload) or
\* exactly 2 bytes (the CRC-16 of the payload, high byte first).
C14_PollFixesChecksum ==
    (loc["a"].op = "xsend" /\ hist["a"].poll # TimedOut)
    => LET bl == xmodem["a"].block_length
           poll == hist["a"].poll
           plen == 3 + bl + (IF poll = NAK THEN 1 ELSE 2)
           sent == tx["a"]
       IN /\ poll \in {NAK, CRC}
          /\ Len(sent) >= loc["a"].block_num * plen
          /\ \A k \in 1..loc["a"].block_num :
                LET pkt == SubSeq(sent, (k - 1) * plen + 1, k * plen)
                    block == XBlock("a", k)
                IN /\ SubSeq(pkt, 4, 3 + bl) = block
                   /\ SubSeq(pkt, 4 + bl, plen) = XVerification(poll, block)
          /\ \A i \in (loc["a"].block_num * plen + 1)..Len(sent) : sent[i] = EOT

\* a call whose handshake ended with C has written two packets of 1024
\* bytes, the second one padded
C14_Witness ==
    /\ loc["a"].op = "xsend"
    /\ hist["a"].poll = CRC
    /\ xmodem["a"].block_length = StxSize
    /\ loc["a"].block_num = 2
    /\ Len(hist["a"].source) = StxSize + 1
    /\ Len(tx["a"]) = 2 * (StxSize + 5)

HandshakeExhausted ==
    /\ loc["a"].op = "xsend"
    /\ hist["a"].poll = TimedOut
    /\ ret["a"] = "ExhaustedRetries"
    /\ loc["a"].cancels = 1
    /\ hist["a"].last = TimedOut
    /\ tx["a"] = <<CAN>>

\* ------------------------------------------- claims: Ymodem::recv, the end

\* what the call of endpoint e wrote in answer to the EOT number i it read
EotAnswer(e, i) == SubSeq(tx[e], hist[e].eots[i][1] + 1, hist[e].eots[i][2])

\* C16: in the main phase of Ymodem::recv the answer to the first EOT is a
\* single NAK and the answer to the second EOT is ACK followed by C; no EOT
\* is answered with ACK, C before an earlier EOT was answered with NAK.
C16_EotReplies ==
    loc["a"].op = "yrecv"
    => LET n == Len(hist["a"].eots)
       IN /\ n >= 1 => EotAnswer("a", 1) = <<NAK>>
          /\ n >= 2 => EotAnswer("a", 2) = <<ACK, CRC>>
          /\ \A i \in 1..n :
                EotAnswer("a", i) = <<ACK, CRC>>
                => \E j \in 1..(i - 1) : EotAnswer("a", j) = <<NAK>>

\* a call has accepted a data packet and answered two EOTs, the second one
\* right after the first
C16_Witness ==
    /\ loc["a"].op = "yrecv"
    /\ hist["a"].acked = 1
    /\ Len(hist["a"].eots) = 2
    /\ hist["a"].eots[2][1] = hist["a"].eots[1][2]
    /\ EotAnswer("a", 2) = <<ACK, CRC>>

\* ---------------------------------------- claims: Ymodem::recv, the header

\* the header packet of the file PeerName of PeerSize bytes as a sender
\* writes it, from its SOH to its CRC, and then nothing more
SentHeader == <<SOH>> \o PeerHeader(PeerName, PeerSize, 0, 0, 0)

\* C17: in Ymodem::recv, after a header packet answered with NAK for its
\* CRC, and below the error cap, a correct header packet sent again (SOH, 0,
\* 255, 128 bytes of payload, CRC) is accepted: the call writes ACK and C,
\* reports the file name and the file size of that packet and goes on to the
\* data phase expecting the sequence number 1.
C17_HeaderRetryAccepted ==
    [][(/\ pc["a"] = "y_recv_header"
        /\ ymodem["a"].errors >= 1
        /\ ymodem["a"].errors < ymodem["a"].max_errors
        /\ hist'["a"].header = SentHeader
        /\ hist'["a"] # hist["a"])
       => /\ pc'["a"] = "y_recv_data"
          /\ tx'["a"] = tx["a"] \o <<ACK, CRC>>
          /\ loc'["a"].file_name = PeerName
          /\ loc'["a"].file_size = 1
          /\ loc'["a"].packet_num = 1]_vars

\* ------------------------------- YMODEM: receiver against a sender-like peer

\* a single Ymodem::recv call on a new engine value, the peer being one of
\* SenderKinds
NextYPeer ==
    \/ \E me \in 0..MaxErrors, peer \in SenderKinds :
          calls["a"] = 0 /\ YRecvCall("a", me, FALSE, peer)
    \/ YRecvSteps("a")

SpecYPeer == InitX /\ [][NextYPeer]_vars

\* the last packet the call of endpoint e read was the end frame, in the
\* iteration that expects it, and the call answered it with ACK
EndFrameAccepted(e) ==
    /\ hist[e].pkt.pnum = 0
    /\ hist[e].pkt.expected = 0
    /\ hist[e].pkt.verified
    /\ tx[e] # <<>>
    /\ tx[e][Len(tx[e])] = ACK

\* C18: in the main phase of Ymodem::recv a soft failure below the cap (a
\* packet answered with NAK for its CRC, a timeout, a byte it does not know)
\* does not end the transfer: against a sender that sends again what was
\* not accepted and then EOT, EOT and the end frame, with fewer than
\* max_errors failures in all, the call returns Ok, having read both EOTs
\* and accepted the end frame, with the whole file in the sink.
C18_SoftFailureRecovered ==
    (/\ loc["a"].op = "yrecv"
     /\ loc["a"].peer = "retry"
     /\ ~Running("a")
     /\ hist["a"].soft < ymodem["a"].max_errors)
    => /\ ret["a"] = "Ok"
       /\ Len(hist["a"].eots) = 2
       /\ EndFrameAccepted("a")
       /\ hist["a"].acked = loc["a"].num_of_packets + 1
       /\ Len(outstream["a"]) = loc["a"].file_size
       /\ outstream["a"] = Take(hist["a"].accepted, loc["a"].file_size)

\* the same for the transfers that meet no failure
NoFailureRecovered ==
    hist["a"].soft = 0 => C18_SoftFailureRecovered

\* C19: Ymodem::recv accepts a file sent as packets of 128 bytes: when the
\* sender sends the packets that cover the file, numbered 1, 2, ..., then
\* EOT, EOT and the end frame, the call answers every data packet with ACK
\* and returns Ok with the bytes of the file, and no more, in the sink.
C19_SohPacketsAccepted ==
    (/\ loc["a"].op = "yrecv"
     /\ loc["a"].peer = "soh"
     /\ ymodem["a"].max_errors >= 1
     /\ ~Running("a"))
    => /\ ret["a"] = "Ok"
       /\ hist["a"].acked >= SohPackets(loc["a"].file_size)
       /\ Len(outstream["a"]) = loc["a"].file_size
       /\ \A i \in 1..Len(outstream["a"]) :
             outstream["a"][i] = PeerFill(((i - 1) \div SohSize) + 1)

\* the same for the files of at most three packets of 128 bytes
SohPacketsUpToThree ==
    SohPackets(loc["a"].file_size) <= 3 => C19_SohPacketsAccepted

\* ------------------------------------------------------------------ C20

\* the file-name field of the header packet `it`: the bytes after the two
\* sequence bytes, up to the zero byte that ends the name
NameField(it) == SubSeq(it, 3, StopAt(it, 3) - 1)

\* the header packet `it` holds a whole file-name field, ended by its zero
\* byte, that is not UTF-8
BadNameHeader(it) ==
    /\ Len(it) >= 3
    /\ \A k \in 1..StopAt(it, 3) : IsByte(it[k])
    /\ it[StopAt(it, 3)] = 0
    /\ ~Utf8Valid(NameField(it))

\* C20: once Ymodem::recv has read, as its first header packet, one whose
\* file-name field is not valid UTF-8, the call returns the error Canceled:
\* it neither aborts nor returns success
C20_BadNameCancels ==
    (/\ loc["a"].op = "yrecv"
     /\ ymodem["a"].errors = 0
     /\ BadNameHeader(hist["a"].header))
    => /\ ~Running("a")
       /\ ret["a"] = "Canceled"

\* ------------------------------------------- claims: Ymodem::send, frames

\* number of bytes of the header frame and of the end frame
YFrameBytes == FrameLen + 2

\* number of bytes of a data frame of 1024 payload bytes
YDataFrameBytes == StxSize + 5

\* block number k of 1024 bytes of the source of endpoint e, padded with
\* pad_byte to a whole block
YBlock(e, k) ==
    LET data == SubSeq(hist[e].source, (k - 1) * StxSize + 1,
                       Min(k * StxSize, Len(hist[e].source)))
    IN data \o Fill(StxSize - Len(data), ymodem[e].pad_byte)

\* C21: every data frame written by Ymodem::send is STX, sequence,
\* complement, exactly 1024 payload bytes (source bytes, the last block
\* right-padded with pad_byte) and 2 CRC bytes, whatever the file size; a
\* call that returns Ok has written ceil(file_size / 1024) data frames.
C21_DataFramesAreStx ==
    loc["a"].op = "ysend"
    => /\ pc["a"] = "y_await_ack"
          => LET k == loc["a"].block_num
                 from == YFrameBytes + (k - 1) * YDataFrameBytes
             IN /\ Len(tx["a"]) = from + YDataFrameBytes
                /\ SubSeq(tx["a"], from + 1, Len(tx["a"]))
                     = WithCrc(<<STX, k % 256, 255 - (k % 256)>> \o YBlock("a", k))
       /\ (~Running("a") /\ ret["a"] = "Ok")
          => loc["a"].block_num = loc["a"].packets_to_send

\* the same for the files whose last block has more than 128 bytes
LongLastBlockFrames ==
    loc["a"].last_packet_size > SohSize => C21_DataFramesAreStx

\* the payload of the header frame of the file `name` of `size` bytes as the
\* protocol has it: name, zero, the decimal digits of the size, zero, zeros
YHeaderPayload(name, size) ==
    LET fields == name \o <<0>> \o DecimalDigits(size) \o <<0>>
    IN fields \o Fill(SohSize - Len(fields), 0)

\* the file-size field, with the zero byte that ends it, of the header
\* payload `payload`, as the second loop of Ymodem::recv reads it
SizeField(payload) ==
    LET i == StopAt(payload, 1)
    IN SubSeq(payload, i + 1, StopAt(payload, i + 1))

\* C22: the header frame written by Ymodem::send is SOH, 0x00, 0xFF, a
\* payload of 128 bytes (the file name, a zero byte, all the decimal digits
\* of the file size in order, a zero byte, zeros) and the CRC-16 of the
\* payload, high byte first; read as Ymodem::recv reads it, the payload
\* gives the same name and the same size.
C22_HeaderFrame ==
    (loc["a"].op = "ysend" /\ Len(tx["a"]) >= YFrameBytes)
    => LET frame == Take(tx["a"], YFrameBytes)
           payload == SubSeq(frame, 4, FrameLen)
       IN /\ frame = WithCrc(<<SOH, 0, 255>>
                             \o YHeaderPayload(loc["a"].file_name, loc["a"].file_size))
          /\ SubSeq(payload, 1, StopAt(payload, 1) - 1) = loc["a"].file_name
          /\ FileSizeNum(SizeField(payload), FALSE) = loc["a"].file_size

\* the same for the file sizes below 10, written with one digit
OneDigitHeaderFrame ==
    loc["a"].file_size < 10 => C22_HeaderFrame

\* ------------------------------------------- claims: Ymodem::send, order

\* the length of the log of writes of the Ymodem::send call of endpoint e
\* at the end of its data frame number k (of its header frame for k = 0)
RECURSIVE YDataEnd(_, _)
YDataEnd(e, k) ==
    IF k = 0 THEN YFrameBytes
    ELSE YDataEnd(e, k - 1)
         + YPacketSize(k - 1, loc[e].packets_to_send, loc[e].last_packet_size) + 5

\* the Ymodem::send call of endpoint e has written its end frame and has not
\* failed since
YEnded(e) ==
    \/ pc[e] = "y_await_end_ack" /\ hist[e].last = CRC
    \/ ~Running(e) /\ ret[e] = "Ok"

\* C23: a Ymodem::send call writes in this order, and a call that returns
\* Ok has written all of it: nothing before a C is read; the header frame
\* (sequence 0); after ACK and then C are read, the data frames numbered 1,
\* 2, ..., N; EOT; after the ACK of EOT and then a C are read, the end frame
\* (SOH, 0, 255, 128 zero bytes, CRC); Ok only after the ACK of the end
\* frame is read.
C23_SendOrder ==
    loc["a"].op = "ysend"
    => LET sent == tx["a"]
           got == hist["a"].got
           n == Len(got)
           data == YDataEnd("a", loc["a"].block_num)
           end == Len(sent) - YFrameBytes
       IN /\ (got = <<>> /\ Running("a")) => sent = <<>>
          /\ got # <<>> => got[1] = <<CRC, 0>>
          /\ (got # <<>> /\ sent # <<>>) => Take(sent, 3) = <<SOH, 0, 255>>
          /\ Len(sent) > YFrameBytes
             => /\ n >= 3
                /\ got[2] = <<ACK, YFrameBytes>>
                /\ got[3] = <<CRC, YFrameBytes>>
                /\ Len(sent) >= data
                /\ \A k \in 1..loc["a"].block_num :
                      SubSeq(sent, YDataEnd("a", k - 1) + 1, YDataEnd("a", k - 1) + 3)
                        = <<STX, k % 256, 255 - (k % 256)>>
          /\ YEnded("a")
             => LET m == IF Running("a") THEN n ELSE n - 1
                IN /\ end > data
                   /\ \A i \in (data + 1)..end : sent[i] = EOT
                   /\ SubSeq(sent, end + 1, Len(sent)) = YEndFrame
                   /\ m >= 5
                   /\ got[m - 1] = <<ACK, end>>
                   /\ got[m] = <<CRC, end>>
                   /\ ~Running("a") => got[n] = <<ACK, Len(sent)>>

\* a call has returned Ok for a file of 1025 bytes, written as two data
\* frames, after one failure on the way
C23_Witness ==
    /\ loc["a"].op = "ysend"
    /\ ~Running("a") /\ ret["a"] = "Ok"
    /\ loc["a"].file_size = StxSize + 1
    /\ loc["a"].block_num = 2
    /\ ymodem["a"].errors = 1
    /\ Len(hist["a"].got) = 8

\* the place in hist[e].got of the answer that ended the first loop of
\* finish_send: after the C of the handshake, the ACK and the C of the
\* header frame and the ACKs of the data frames
FirstEotReply(e) == 4 + hist[e].acked

\* C24: in finish_send of Ymodem::send a second EOT is written only when
\* the answer to the first EOT was NAK: once the first EOT is answered with
\* ACK the call writes no EOT any more and waits for C.
C24_SecondEotOnlyAfterNak ==
    LET got == hist["a"].got
        i == FirstEotReply("a")
    IN (/\ loc["a"].op = "ysend"
        /\ Len(got) >= i
        /\ got[i][1] = ACK)
       => /\ pc["a"] \notin {"y_finish_send_2", "y_await_eot_ack"}
          /\ \A k \in (got[i][2] + 1)..Len(tx["a"]) : tx["a"][k] # EOT

\* ------------------------------------ claims: the expected sequence number

\* labels of the main phase of a receiving call
MainRecvLabels == {"x_recv_loop", "x_recv_packet", "y_recv_data", "y_recv_packet"}

\* the step of endpoint e is the acceptance of a data packet: it was read
\* to its end and the answer written is ACK
PacketAccepted(e) ==
    /\ pc[e] \in BodyReadLabels
    /\ tx'[e] = tx[e] \o <<ACK>>
    /\ hist'[e].pkt.verified
    /\ hist'[e].pkt.pnum = hist'[e].pkt.expected
    /\ hist'[e].pkt.pnum_1c = 255 - hist'[e].pkt.pnum

\* C25: in the main phase of Xmodem::recv and of Ymodem::recv the expected
\* sequence number packet_num changes only in the step that accepts a
\* packet, and then to the next number modulo 256; a packet answered with
\* NAK, a timeout, an unknown byte and an EOT leave it as it is.
C25_ExpectedAdvancesOnAccept ==
    [][(/\ pc["a"] \in MainRecvLabels
        /\ Running("a")'
        /\ loc'["a"].packet_num # loc["a"].packet_num)
       => /\ PacketAccepted("a")
          /\ loc'["a"].packet_num = (loc["a"].packet_num + 1) % 256]_vars

\* ---------------------------------------------- claims: Xmodem::recv, sink

\* the payloads, one after the other, of the packets of `acks` as an
\* unlinked peer sends them
RECURSIVE PeerPayloads(_)
PeerPayloads(acks) ==
    IF acks = <<>> THEN <<>>
    ELSE Fill(Head(acks)[2], PeerFill(Head(acks)[1])) \o PeerPayloads(Tail(acks))

NextCall ==
    \/ NextSend
    \/ NextXRecv
    \/ NextYRecv

SpecCall == InitX /\ [][NextCall]_vars

\* C27: a send or receive call changes, of the engine value, only the error
\* counters and, for XMODEM, the checksum mode: at every point of a call and
\* after it, whether it returned Ok or an error, max_errors,
\* max_initial_errors, pad_byte, block_length and
\* ignore_non_digits_on_file_size are as they were when the call was
\* entered, and the value of the other engine is as it was made.
C27_ConfigUnchanged ==
    loc["a"].op # "none"
    => /\ XConfig(xmodem["a"]) = hist["a"].entry[1]
       /\ YConfig(ymodem["a"]) = hist["a"].entry[2]
       /\ loc["a"].op \in {"ysend", "yrecv"} => xmodem["a"] = XmodemNew
       /\ loc["a"].op \in {"xsend", "xrecv"} => ymodem["a"] = YmodemNew

\* an Xmodem::send call with blocks of 1024 bytes and max_errors = 2 has
\* selected the CRC mode, counted two failures and returned an error
C27_Witness ==
    /\ loc["a"].op = "xsend"
    /\ ~Running("a") /\ ret["a"] = "ExhaustedRetries"
    /\ hist["a"].poll = CRC
    /\ xmodem["a"].checksum_mode = "CRC16"
    /\ xmodem["a"].errors = 2
    /\ XConfig(xmodem["a"]) = <<2, 2, 26, StxSize>>

\* ------------------------------------------------ claims: the cap on errors

\* C28: with max_errors >= 1, in every state of every send and receive call
\* the counter errors is at most max_errors: every loop that increments it
\* compares it with the cap after the increment, the loop of Ymodem::recv
\* that reads the header packet included.
C28_ErrorsWithinCap ==
    (/\ loc["a"].op # "none"
     /\ Engine("a").max_errors >= 1)
    => Engine("a").errors <= Engine("a").max_errors

\* ------------------------------------- claims: Ymodem::recv, the delivery

\* the third loop of the Ymodem::recv call of endpoint e has run all its
\* iterations, none of them ending the call with an error
YLoopFinished(e) ==
    /\ loc[e].op = "yrecv"
    /\ ~Running(e)
    /\ ret[e] \in {"Ok", "panic"}
    /\ loc[e].range = loc[e].num_of_packets + 2

\* C29: when the third loop of Ymodem::recv finishes without an error
\* return, file_buf holds at least file_size bytes, so that the slice
\* file_buf[0..file_size] written to the sink is in range, whatever the peer
\* did: iterations used up by timeouts, unknown bytes, packets answered
\* with NAK or EOTs, a header that announces more bytes than are sent.
C29_BufferCoversFileSize ==
    YLoopFinished("a")
    => /\ Len(loc["a"].file_buf) >= loc["a"].file_size
       /\ ret["a"] = "Ok"

\* ------------------------------ claims: Ymodem::recv, the header payload

\* how the reads of the header packet end in the step that endpoint e takes
\* from the second loop of Ymodem::recv, and the number of items read
HeaderRead(e) ==
    YHeaderScan(hist'[e].header, loc[e].file_name_buf, loc[e].file_size_buf)

\* C30: reading a header packet, Ymodem::recv takes exactly 128 payload
\* bytes before the 2 CRC bytes: the file-name field and the file-size
\* field, each with its zero byte, never hold more than 128 bytes together,
\* so the padding length 128 - name_len - size_len is never below zero,
\* whatever the peer sends, and also when the header is read again after NAK.
C30_HeaderPayloadIs128 ==
    [][(pc["a"] = "y_recv_header" /\ pc'["a"] # "y_recv_header")
       \/ (pc["a"] = "y_recv_header" /\ tx'["a"] # tx["a"])
       => /\ HeaderRead("a")[1] # "overflow"
          /\ HeaderRead("a")[1] = "ok" => HeaderRead("a")[2] = 2 + SohSize + 2]_vars

====
